---- MODULE Spec2Model ----
(***************************************************************************)
(* Verification model of the Agent Event & Scheduling Runtime:             *)
(*   - behavior-randomizer  getNextPostInterval      (src/unnamed/part_002)*)
(*   - EventEngine          queue / drain / dispatch (src/unnamed/part_003)*)
(*   - AgentManager         scheduler, reaction pipeline, poller, backoff, *)
(*                          conversation resolver                          *)
(*                          (src/src/agents/agent-manager.js)              *)
(* Time is in milliseconds as in the code (Date.now()).  Math.random() is  *)
(* a draw in per-mille (0..999) taken from a small set.  Every await of    *)
(* the code is a point where a handler may be suspended, so a handler is   *)
(* one action per run-to-await segment.                                    *)
(***************************************************************************)
EXTENDS Integers, Sequences, FiniteSets, TLC

VARIABLES
  \* ---- wall clock
  now,            \* Date.now(), in ms
  \* ---- getNextPostInterval, applied to drawn inputs
  jIn,            \* the agent's postFrequency, the wall-clock hour
  jOut,           \* [called, r, t]: the draws and the interval returned
  \* ---- fetchConversationThread, one resolution
  thread,         \* the state of the recursion (see ThreadStart)
  \* ---- EventEngine
  eventListeners, \* this.eventListeners : type -> sequence of listener ids
  eventQueue,     \* this.eventQueue     : sequence of events
  scheduledEvents,\* this.scheduledEvents: sequence of [event, scheduledTime]
  isProcessing,   \* this.isProcessing
  eventHistory,   \* this.eventHistory   : sequence of processed events
  drain,          \* the processEvents call in progress (its awaited dispatch)
  nextEventId,    \* stands for uuidv4(): the number of events made so far
  created,        \* ghost: [event, how] in the order createEvent / scheduleEvent ran
  dispatched,     \* ghost: events in the order dispatchEvent was entered
  \* ---- AgentManager
  processedTweetIds,      \* this.processedTweetIds (a Set)
  processedFile,          \* data/processed_tweets.json: the ids saved
  apiErrorCounts,         \* this.apiErrorCounts[agentId]
  apiCooldowns,           \* this.apiCooldowns[agentId], 0 when unset
  nextPostTimes,          \* this.nextPostTimes[agentId], 0 when unset or null
  lastPostTime,           \* agent.lastPostTime, 0 when null
  pollers,                \* per agent: the closure of _startPollingMentionsForAgent
  lastMentionRequestTime, \* twitterClient._lastMentionRequestTime
  runs,                   \* the asynchronous activities started so far
  log,                    \* ghost: what the activities did
  apiTrace,               \* ghost: per agent, the errors handled and the resets
  budget,                 \* how many more activities of each kind may start
  \* ---- MemoryManager, for one agent
  memory,                 \* this.agentMemories[agentId] and what was last done to it
  \* ---- AgentManager: the processed ids in the order of their insertion
  dedup,                  \* [ids, file, last]: the Set, the id file, the last call
  \* ---- AgentManager.loadAgents, one call
  loader,                 \* [files, pc, i, settled, agents, scheduled]
  \* ---- PumpCantFunBot and its TwitterMentionHandler
  bot,                    \* the process, the id file, what was sent so far
  \* ---- AgentManager: the listener on 'all' and processAgentEvent
  fanout                  \* the event, the loop over the agents, their state

jitterVars == <<jIn, jOut>>
threadVars == <<thread>>
eventVars == <<eventListeners, eventQueue, scheduledEvents, isProcessing,
               eventHistory, drain, nextEventId, created, dispatched>>
managerVars == <<processedTweetIds, processedFile, apiErrorCounts, apiCooldowns,
                 nextPostTimes, lastPostTime, pollers, lastMentionRequestTime,
                 runs, log, apiTrace, budget>>
memoryVars == <<memory>>
dedupVars == <<dedup>>
loaderVars == <<loader>>
botVars == <<bot>>
fanoutVars == <<fanout>>
restVars == <<memoryVars, dedupVars, loaderVars, botVars, fanoutVars>>
vars == <<now, jitterVars, threadVars, eventVars, managerVars, restVars>>

(***************************************************************************)
(* Arithmetic helpers                                                      *)
(***************************************************************************)
Min(a, b) == IF a <= b THEN a ELSE b
\* the smaller of the two (used to show that the rate-limit floor rests on
\* Math.max)
Lesser(a, b) == IF a <= b THEN a ELSE b
Max(a, b) == IF a >= b THEN a ELSE b

\* floor(a * b / d) for a, b >= 0, d > 0, without leaving 32-bit range
MulDiv(a, b, d) == (a \div d) * b + ((a % d) * b) \div d


(***************************************************************************)
(* Math.random(): a value in [0, 1), here in per-mille                     *)
(***************************************************************************)
PerMille == 1000
Draws == {0, 500, 501, 999}

(***************************************************************************)
(* behavior-randomizer: getNextPostInterval                                *)
(***************************************************************************)
MsPerHour == 3600000
MsPerMinute == 60000
MaxExtraMinutes == 5

\* the clock starts well after the epoch, as Date.now() does
StartTime == 2 * MsPerMinute

\* The configured hours are kept in sixtieths of an hour, so that fractional
\* configurations (min_hours_between_posts: 0.05) stay integral
HourParts == 60
HoursToMs(h) == (h * MsPerHour) \div HourParts

MaxHours == 3
ConfigHours == (1 .. MaxHours) \cup {HourParts * h : h \in 1 .. MaxHours}
PeakSets == {{}, {9, 12, 18}}
SampleHours == {3, 12}

\* interval * (lo + Math.random() * 0.2), lo in per-mille; the product is
\* floored here, which commutes with the integer addition, the Math.min with
\* the integer maxMs and the final Math.floor that follow it in the code
ScaleInterval(interval, lo, r) ==
  MulDiv(interval, 10 * lo + 2 * r, 10 * PerMille)

PeakScaled(interval, r) == ScaleInterval(interval, 700, r)
OffPeakScaled(interval, r) == ScaleInterval(interval, 1100, r)

\* pf: [minHoursBetweenPosts, maxHoursBetweenPosts, peakPostingHours]
\* r : the four draws of Math.random(), in the order the code takes them
\*     (base; scale; coin; extra - the last one only when the coin is > 0.5)
GetNextPostInterval(pf, currentHour, r) ==
  LET minMs == HoursToMs(pf.minHoursBetweenPosts)
      maxMs == HoursToMs(pf.maxHoursBetweenPosts)
      base == minMs + MulDiv(maxMs - minMs, r.base, PerMille)
      isPeakHour == currentHour \in pf.peakPostingHours
      scaled == IF isPeakHour THEN PeakScaled(base, r.scale)
                ELSE OffPeakScaled(base, r.scale)
      extra == IF r.coin > 500
               THEN scaled + MulDiv(MaxExtraMinutes * MsPerMinute, r.extra, PerMille)
               ELSE scaled
  IN Min(extra, maxMs)

PostFrequencies ==
  { [minHoursBetweenPosts |-> lo, maxHoursBetweenPosts |-> hi, peakPostingHours |-> p] :
      lo \in ConfigHours, hi \in ConfigHours, p \in PeakSets }

RandomDraws == [base : Draws, scale : Draws, coin : Draws, extra : Draws]

JitterNotCalled ==
  [called |-> FALSE, r |-> [base |-> 0, scale |-> 0, coin |-> 0, extra |-> 0], t |-> 0]

JitterInit ==
  /\ jIn \in [pf : {pf \in PostFrequencies :
                      pf.minHoursBetweenPosts <= pf.maxHoursBetweenPosts},
              hour : SampleHours]
  /\ jOut = JitterNotCalled

\* one call of getNextPostInterval(agent) at wall-clock hour jIn.hour
CallGetNextPostInterval ==
  /\ ~jOut.called
  /\ \E r \in RandomDraws :
       jOut' = [called |-> TRUE, r |-> r,
                t |-> GetNextPostInterval(jIn.pf, jIn.hour, r)]
  /\ UNCHANGED <<restVars, now, jIn, threadVars, eventVars, managerVars>>


(***************************************************************************)
(* Identities and the items of the external network                        *)
(***************************************************************************)
Null == "null"

Agents == {"bot1", "bot2"}

\* what v2.me() returns for the agent's account.  An agent's id is the id of
\* its account: postTweet stamps authorId = agentId on what the agent posts,
\* and getUserTimeline is called with the id of the target agent
TwitterUserId(a) == a
TwitterUsername(a) == IF a = "bot1" THEN "Bot1" ELSE "Bot2"

\* String.prototype.toLowerCase on the user names of the model
ToLowerCase(u) ==
  CASE u = "Bot1" -> "bot1"
    [] u = "BOT1" -> "bot1"
    [] u = "Bot2" -> "bot2"
    [] u = "User7" -> "user7"
    [] OTHER -> u

\* A reply chain of length 10 (c1 replies to c2 ... replies to c10) and a
\* cycle (cA replies to cB replies to cA)
Chain == <<"c1", "c2", "c3", "c4", "c5", "c6", "c7", "c8", "c9", "c10">>
ChainIds == {Chain[i] : i \in 1 .. Len(Chain)}
ChainIndex(id) == CHOOSE i \in 1 .. Len(Chain) : Chain[i] = id


\* A tweet as the network holds it.  content is the set of its lower-cased
\* words, so that String.includes(word) is membership.
Tw(id, authorId, authorUsername, replyToId, timestamp, content) ==
  [id |-> id, authorId |-> authorId, authorUsername |-> authorUsername,
   replyToId |-> replyToId, timestamp |-> timestamp, content |-> content]

ChainTweet(id) ==
  LET i == ChainIndex(id)
  IN Tw(id, IF i % 2 = 0 THEN "bot1" ELSE "user7", Null,
        IF i < Len(Chain) THEN Chain[i + 1] ELSE Null, 100 - i, {"chain"})

\* t1: a direct mention of bot1 (and of bot2) by user7
\* t2: a tweet of bot1's own account that mentions bot1
\* t3: bot2's account replies to a1, a tweet of bot1, without naming bot1
\* t4: user7 mentions bot1 in a reply to c9 and asks what the tweet is about
\* t5: a tweet of bot2's account that addresses nobody
\* t7: a tweet of bot2's account that mentions bot2
\* a1: a tweet of bot1's account
NetworkTweet(id) ==
  CASE id = "t1" -> Tw(id, "user7", "User7", Null, 50, {"@bot1", "@bot2", "hello"})
    [] id = "t2" -> Tw(id, "bot1", "BOT1", Null, 51, {"@bot1", "gm"})
    [] id = "t3" -> Tw(id, "bot2", "Bot2", "a1", 52, {"nice"})
    [] id = "t4" -> Tw(id, "user7", "User7", "c9", 101, {"@bot1", "what", "tweet"})
    [] id = "t5" -> Tw(id, "bot2", "Bot2", Null, 53, {"gm"})
    [] id = "t7" -> Tw(id, "bot2", "bot2", Null, 54, {"@bot2", "gn"})
    [] id = "a1" -> Tw(id, "bot1", "Bot1", Null, 40, {"launch"})
    [] id = "cA" -> Tw(id, "user7", "User7", "cB", 10, {"a"})
    [] id = "cB" -> Tw(id, "bot1", "Bot1", "cA", 11, {"b"})
    [] OTHER -> ChainTweet(id)

TweetIds == {"t1", "t2", "t3", "t4", "t5", "t7", "a1", "cA", "cB"} \cup ChainIds
\* an id no tweet has (a deleted tweet): fetching it fails
MissingId == "gone"

(***************************************************************************)
(* Conversation resolver: fetchConversationThread (agent-manager.js) and   *)
(* _fetchConversationThread (twitter-client.js), which are the same code   *)
(***************************************************************************)
MaxDepth == 5

ThreadIdle ==
  [pc |-> "idle", cur |-> Null, depth |-> 0, agent |-> Null,
   history |-> <<>>, fetches |-> 0]

\* a depth test that lets one more level through (used to show that the
\* depth bound rests on the test of the code)
DepthExceededLate(depth) == depth > MaxDepth

\* entering fetchConversationThread(tweetId, history, agentId, depth): the
\* depth test, then getTweet is called and awaited
DepthExceeded(depth) == depth >= MaxDepth

ThreadCall(th, tweetId, depth) ==
  IF DepthExceeded(depth)
  THEN [th EXCEPT !.pc = "ret"]
  ELSE [th EXCEPT !.pc = "await", !.cur = tweetId, !.depth = depth,
                  !.fetches = @ + 1]

\* one entry of the conversation history
HistoryEntry(tweet, agentId) ==
  [role |-> IF tweet.authorId = agentId THEN "agent" ELSE "user",
   id |-> tweet.id, timestamp |-> tweet.timestamp]

\* a catch that throws the gathered entries away (used to show that the
\* partial context rests on the catch leaving the history alone)
FetchFailedForgets(th) == [th EXCEPT !.pc = "ret", !.history = <<>>]

\* the catch of fetchConversationThread: log, return
FetchFailed(th) == [th EXCEPT !.pc = "ret"]

\* the awaited getTweet settles: on failure the catch logs and returns; on
\* success the entry is pushed and the parent, if any, is resolved
ThreadResume(th, ok) ==
  IF ~ok
  THEN FetchFailed(th)
  ELSE LET tweet == NetworkTweet(th.cur)
           pushed == [th EXCEPT !.history = Append(@, HistoryEntry(tweet, th.agent))]
       IN IF tweet.replyToId # Null
          THEN ThreadCall(pushed, tweet.replyToId, th.depth + 1)
          ELSE [pushed EXCEPT !.pc = "ret"]

\* getTweet can fail for any tweet (network error) and must fail for a
\* tweet that does not exist
FetchOutcomes(id) == IF id \in TweetIds THEN {TRUE, FALSE} ELSE {FALSE}

ThreadSeeds == TweetIds \cup {MissingId}

ThreadStart ==
  /\ thread.pc = "idle"
  /\ \E seed \in ThreadSeeds, a \in Agents :
       thread' = ThreadCall([ThreadIdle EXCEPT !.agent = a], seed, 0)
  /\ UNCHANGED <<restVars, now, jitterVars, eventVars, managerVars>>

ThreadFetchReturns ==
  /\ thread.pc = "await"
  /\ \E ok \in FetchOutcomes(thread.cur) : thread' = ThreadResume(thread, ok)
  /\ UNCHANGED <<restVars, now, jitterVars, eventVars, managerVars>>


(***************************************************************************)
(* EventEngine (src/unnamed/part_003)                                      *)
(***************************************************************************)
MaxEvents == 3
HistoryCap == 100

Priorities == {"low", "normal", "high", "critical"}

PriorityValue(p) ==
  CASE p = "critical" -> 3
    [] p = "high" -> 2
    [] p = "normal" -> 1
    [] p = "low" -> 0

EventTypes == {"news", "mood_shift"}
\* the listeners registered before the engine runs: the AgentManager's on
\* "all" and one on "news"
RegisteredListeners ==
  [t \in EventTypes \cup {"all"} |->
     CASE t = "all" -> <<"manager">>
       [] t = "news" -> <<"newsfeed">>
       [] OTHER -> <<>>]

\* the delays scheduleEvent is called with, in ms
Delays == {MsPerMinute}
EventHorizon == 2

SeqToSet(q) == {q[i] : i \in 1 .. Len(q)}

WithPriority(q, v) == SelectSeq(q, LAMBDA e : PriorityValue(e.priority) = v)

\* a queue that is left in arrival order (used to show that the priority
\* order rests on the sort)
LeaveUnsorted(q) == q

\* Array.prototype.sort is stable: events of one priority keep their order
SortEventQueue(q) ==
  WithPriority(q, 3) \o WithPriority(q, 2) \o WithPriority(q, 1) \o WithPriority(q, 0)

RECURSIVE InsertByTime(_, _)
InsertByTime(q, s) ==
  IF q = <<>> THEN <<s>>
  ELSE IF Head(q).scheduledTime <= s.scheduledTime
       THEN <<Head(q)>> \o InsertByTime(Tail(q), s)
       ELSE <<s>> \o q

\* push, then a stable sort by scheduledTime of a list that was sorted
SortScheduledEvents(q, s) == InsertByTime(q, s)

\* The engine's fields as one record, so that the nested calls
\* queueEvent -> processEvents -> checkScheduledEvents -> queueEvent compose
Engine ==
  [eventQueue |-> eventQueue, scheduledEvents |-> scheduledEvents,
   isProcessing |-> isProcessing, eventHistory |-> eventHistory,
   drain |-> drain, dispatched |-> dispatched]

\* pending: the listeners of the event whose promise has not settled;
\* failed: one of them has rejected; loops is a ghost, the number of
\* processEvents calls that are between their guard and their finally block
DrainIdle ==
  [pc |-> "idle", event |-> Null, pending |-> {}, failed |-> FALSE, loops |-> 0]

\* the listeners of the event's type alone (used to show that the "all"
\* listeners are part of every dispatch)
TypeListenersOf(event) == SeqToSet(eventListeners[event.type])

ListenersOf(event) ==
  SeqToSet(eventListeners[event.type]) \cup SeqToSet(eventListeners["all"])

\* the while loop of processEvents, from its test to the awaited dispatch
\* (dispatchEvent calls every listener before it awaits them) or to the
\* finally block
ProcessLoop(eng) ==
  IF Len(eng.eventQueue) > 0
  THEN LET event == Head(eng.eventQueue)
       IN [eng EXCEPT !.eventQueue = Tail(@),
                      !.dispatched = Append(@, event),
                      !.drain = [pc |-> "dispatch", event |-> event,
                                 pending |-> ListenersOf(event),
                                 failed |-> FALSE,
                                 loops |-> eng.drain.loops]]
  ELSE [eng EXCEPT !.isProcessing = FALSE,
                   !.drain = [DrainIdle EXCEPT !.loops = eng.drain.loops - 1]]

PushAndSort(eng, event) ==
  [eng EXCEPT !.eventQueue = SortEventQueue(Append(@, event))]

RECURSIVE QueueAll(_, _)
QueueAll(eng, events) ==
  IF events = <<>> THEN eng
  ELSE QueueAll(PushAndSort(eng, Head(events)), Tail(events))

\* checkScheduledEvents, as processEvents calls it (isProcessing is set, so
\* the queueEvent calls it makes only push and sort)
CheckScheduledEvents(eng, t) ==
  LET due == SelectSeq(eng.scheduledEvents, LAMBDA s : s.scheduledTime <= t)
      future == SelectSeq(eng.scheduledEvents, LAMBDA s : ~(s.scheduledTime <= t))
      dueEvents == [i \in 1 .. Len(due) |-> due[i].event]
  IN QueueAll([eng EXCEPT !.scheduledEvents = future], dueEvents)

\* a drain that never raises the flag (used to show that the single drain
\* rests on isProcessing)
LeaveUnmarked(eng) == [eng EXCEPT !.drain.loops = @ + 1]

\* this.isProcessing = true
MarkProcessing(eng) == [eng EXCEPT !.isProcessing = TRUE, !.drain.loops = @ + 1]

ProcessEvents(eng, t) ==
  IF eng.isProcessing THEN eng
  ELSE ProcessLoop(CheckScheduledEvents(MarkProcessing(eng), t))

\* a queueEvent that only pushes and sorts (used to show that the emptying
\* of the queue rests on queueEvent starting the drain)
QueueWithoutDrain(eng, event, t) == PushAndSort(eng, event)

QueueEvent(eng, event, t) ==
  LET pushed == PushAndSort(eng, event)
  IN IF ~pushed.isProcessing THEN ProcessEvents(pushed, t) ELSE pushed

SetEngine(eng) ==
  /\ eventQueue' = eng.eventQueue
  /\ scheduledEvents' = eng.scheduledEvents
  /\ isProcessing' = eng.isProcessing
  /\ eventHistory' = eng.eventHistory
  /\ drain' = eng.drain
  /\ dispatched' = eng.dispatched

NewEvent(type, priority) ==
  [id |-> nextEventId + 1, type |-> type, priority |-> priority]

EventInit ==
  /\ eventListeners = RegisteredListeners
  /\ eventQueue = <<>>
  /\ scheduledEvents = <<>>
  /\ isProcessing = FALSE
  /\ eventHistory = <<>>
  /\ drain = DrainIdle
  /\ nextEventId = 0
  /\ created = <<>>
  /\ dispatched = <<>>

\* createEvent(type, data, {priority})
CreateEvent ==
  /\ nextEventId < MaxEvents
  /\ \E type \in EventTypes, priority \in Priorities :
       LET event == NewEvent(type, priority)
       IN /\ SetEngine(QueueEvent(Engine, event, now))
          /\ created' = Append(created, [event |-> event, how |-> "createEvent"])
  /\ nextEventId' = nextEventId + 1
  /\ UNCHANGED <<restVars, now, jitterVars, threadVars, managerVars, eventListeners>>

\* scheduleEvent(type, data, delayMs, {priority})
ScheduleEvent ==
  /\ nextEventId < MaxEvents
  /\ \E type \in EventTypes, priority \in Priorities, delayMs \in Delays :
       LET event == NewEvent(type, priority)
       IN /\ scheduledEvents' =
               SortScheduledEvents(scheduledEvents,
                 [event |-> event, scheduledTime |-> now + delayMs])
          /\ created' = Append(created, [event |-> event, how |-> "scheduleEvent"])
  /\ nextEventId' = nextEventId + 1
  /\ UNCHANGED <<restVars, now, jitterVars, threadVars, managerVars, eventListeners, eventQueue,
                 isProcessing, eventHistory, drain, dispatched>>

\* a listener's promise settles; a rejection is caught and logged by the
\* wrapper dispatchEvent puts around each listener
ListenerSettles ==
  /\ drain.pc = "dispatch"
  /\ \E l \in drain.pending, ok \in BOOLEAN :
       drain' = [drain EXCEPT !.pending = @ \ {l}, !.failed = @ \/ ~ok]
  /\ UNCHANGED <<restVars, now, jitterVars, threadVars, managerVars, eventListeners, eventQueue,
                 scheduledEvents, isProcessing, eventHistory, nextEventId,
                 created, dispatched>>

\* a history that is never cut (used to show that the cap rests on the
\* shift of the code)
PushUncapped(h, event) == Append(h, event)

PushHistory(h, event) ==
  LET pushed == Append(h, event)
  IN IF Len(pushed) > HistoryCap THEN Tail(pushed) ELSE pushed

\* await dispatchEvent(event) resumes: history, then the loop again
DispatchReturns ==
  /\ drain.pc = "dispatch"
  /\ drain.pending = {}
  /\ SetEngine(ProcessLoop([Engine EXCEPT
                              !.eventHistory = PushHistory(@, drain.event)]))
  /\ UNCHANGED <<restVars, now, jitterVars, threadVars, managerVars, eventListeners,
                 nextEventId, created>>

\* the news interval of setupRandomEvents fires: generateRandomNewsEvent()
\* calls createEvent('news', data), the priority being the default
MaxNews == 102

GenerateRandomNewsEvent ==
  /\ nextEventId < MaxNews
  /\ LET event == NewEvent("news", "normal")
     IN /\ SetEngine(QueueEvent(Engine, event, now))
        /\ created' = Append(created, [event |-> event, how |-> "createEvent"])
  /\ nextEventId' = nextEventId + 1
  /\ UNCHANGED <<restVars, now, jitterVars, threadVars, managerVars, eventListeners>>

EventClock ==
  /\ now < StartTime + EventHorizon * MsPerMinute
  /\ now' = now + MsPerMinute
  /\ UNCHANGED <<restVars, jitterVars, threadVars, eventVars, managerVars>>


(***************************************************************************)
(* AgentManager (src/src/agents/agent-manager.js): configuration           *)
(***************************************************************************)
\* new Date().getHours()
HourOf(t) == (t \div MsPerHour) % 24

\* agent.behavior of every agent: a fast poster (hours in sixtieths) with
\* the default interaction probabilities (per-mille)
AgentPostFrequency ==
  [minHoursBetweenPosts |-> 1, maxHoursBetweenPosts |-> 2, peakPostingHours |-> {}]
ReplyProbability == 500
QuoteTweetProbability == 300
LikeProbability == 700

\* agent.behavior.interactionPatterns.likeProbability: bot2 is configured to
\* like whatever its generator suggests (1.0), bot1 keeps the default
AgentLikeProbability(a) == IF a = "bot2" THEN 1000 ELSE LikeProbability

\* this.llmProvider: the constructor assigns defaultLLMProvider, llmProviders
\* and agentLLMProviders, and nothing in the repository assigns llmProvider
llmProvider == Null

\* the draws scheduleNextPost is modelled with
SchedDraws ==
  {[base |-> d, scale |-> d, coin |-> d, extra |-> d] : d \in {0, 999}}

ErrorClasses == {"other", "rate_limit"}

\* the mentions of each agent on the network, oldest first
MentionInbox(a) == IF a = "bot1" THEN <<"t1", "t2", "t4">> ELSE <<"t1", "t7">>
\* the tweets of the account getUserTimeline(targetId) resolves to
Timeline(target) == IF target = "bot1" THEN {"a1"} ELSE {"t3", "t5"}

\* `fake-${Date.now()}`
FakeId(t) == "fake-" \o ToString(t)
AllTweetIds == TweetIds \cup {MissingId}

(***************************************************************************)
(* AgentManager: state                                                     *)
(***************************************************************************)
NoItem ==
  [id |-> Null, authorId |-> Null, authorUsername |-> Null, replyToId |-> Null,
   content |-> {}, isDirectMention |-> FALSE, hasHistory |-> FALSE]

\* an item as a delivery path hands it over
Item(tweet, withUsername, direct) ==
  [id |-> tweet.id, authorId |-> tweet.authorId,
   authorUsername |-> IF withUsername THEN tweet.authorUsername ELSE Null,
   replyToId |-> tweet.replyToId, content |-> tweet.content,
   isDirectMention |-> direct, hasHistory |-> FALSE]

FakePost(targetId) ==
  [NoItem EXCEPT !.id = FakeId(now), !.authorId = targetId, !.content = {"post"}]

\* kind : "stream" | "poll" | "event" | "cron"
\* pc   : the await the activity is suspended at, "done" when it is over
\* stage: whose context fetch is running ("stream", "poll", "mention", "passive")
\* ghost: what generateReaction suggested to the activity and the value of
\* the Math.random() its suggestion was gated with (0 when none was drawn)
NoGate == [suggested |-> Null, draw |-> 0]

NewRun(kind, agent, pc) ==
  [kind |-> kind, agent |-> agent, pc |-> pc, stage |-> Null, target |-> Null,
   item |-> NoItem, batch |-> <<>>, th |-> ThreadIdle, task |-> Null,
   avoid |-> FALSE, protected |-> FALSE, postNow |-> 0, gate |-> NoGate,
   conversationHistory |-> <<>>, transcript |-> <<>>]

\* mode: "stream" when the agent's mention stream is up, "poll" once
\* _startPollingMentionsForAgent has run, "none" before either
PollerIdle == [mode |-> "none", agentUsername |-> Null, lastMentionId |-> Null]

Manager ==
  [processedTweetIds |-> processedTweetIds, processedFile |-> processedFile,
   apiErrorCounts |-> apiErrorCounts, apiCooldowns |-> apiCooldowns,
   nextPostTimes |-> nextPostTimes, lastPostTime |-> lastPostTime,
   pollers |-> pollers, lastMentionRequestTime |-> lastMentionRequestTime,
   runs |-> runs, log |-> log, apiTrace |-> apiTrace, budget |-> budget]

SetManager(m) ==
  /\ processedTweetIds' = m.processedTweetIds
  /\ processedFile' = m.processedFile
  /\ apiErrorCounts' = m.apiErrorCounts
  /\ apiCooldowns' = m.apiCooldowns
  /\ nextPostTimes' = m.nextPostTimes
  /\ lastPostTime' = m.lastPostTime
  /\ pollers' = m.pollers
  /\ lastMentionRequestTime' = m.lastMentionRequestTime
  /\ runs' = m.runs
  /\ log' = m.log
  /\ apiTrace' = m.apiTrace
  /\ budget' = m.budget

\* runs: how many more activities may start; minutes: how far the clock may
\* go; first: the agents whose first-schedule timeout is pending;
\* cronAgents: the agents with a cron schedule; cronDue, pollDue: the agents
\* whose cron tick or poll tick of the current minute has not run yet
NoBudget ==
  [runs |-> 0, minutes |-> 0, first |-> {}, cronAgents |-> {}, cronDue |-> {},
   pollDue |-> {}]

ManagerInit ==
  /\ processedTweetIds = {}
  /\ processedFile = {}
  /\ apiErrorCounts = [a \in Agents |-> 0]
  /\ apiCooldowns = [a \in Agents |-> 0]
  /\ nextPostTimes = [a \in Agents |-> 0]
  /\ lastPostTime = [a \in Agents |-> 0]
  /\ lastMentionRequestTime = 0
  /\ runs = <<>>
  /\ log = {}
  /\ apiTrace = [a \in Agents |-> <<>>]

\* the agents of up have their mention stream running
StreamsUp(up) ==
  pollers = [a \in Agents |-> IF a \in up THEN [PollerIdle EXCEPT !.mode = "stream"]
                              ELSE PollerIdle]

\* this.apiCooldowns[agentId] && now < this.apiCooldowns[agentId]
InCooldown(m, a) == m.apiCooldowns[a] # 0 /\ now < m.apiCooldowns[a]

\* the item is the agent's own: by the id of its author or by its author's
\* user name, whatever the case of the letters
OwnItem(a, item) ==
  \/ item.authorId = a
  \/ /\ item.authorUsername # Null
     /\ ToLowerCase(item.authorUsername) = ToLowerCase(TwitterUsername(a))

LogEntry(op, i, a, item, replyToId, why, cool, absent) ==
  [op |-> op, ser |-> i, agent |-> a, item |-> item.id, replyToId |-> replyToId,
   why |-> why, cool |-> cool, absent |-> absent, own |-> OwnItem(a, item),
   at |-> IF op = "publish" THEN now ELSE 0,
   other |-> /\ op = "deliver"
             /\ \E n \in log : n.op = "insert" /\ n.item = item.id /\ n.agent # a]

\* ghost: run i did op; cool and absent are taken at the moment of the op,
\* and so is at, the clock, which is kept for a publish only; other says
\* of a delivery that the pipeline of another agent had inserted the item
\* by then
Logged(m, i, op, replyToId, why) ==
  LET r == m.runs[i]
  IN [m EXCEPT !.log = @ \cup
        {LogEntry(op, i, r.agent, r.item, replyToId, why, InCooldown(m, r.agent),
                  r.item.id \notin m.processedTweetIds)}]

(***************************************************************************)
(* AgentManager: _handleApiError, scheduleNextPost, the persisted id file  *)
(***************************************************************************)
\* a table that never escalates (used to show that the escalation rests on
\* the thresholds of the code)
FlatBackoffMinutes(count) == 1

BackoffMinutes(count) ==
  IF count >= 5 THEN 60
  ELSE IF count >= 4 THEN 30
  ELSE IF count >= 3 THEN 15
  ELSE IF count >= 2 THEN 5
  ELSE 1

RateLimitFloorMinutes == 15

HandleApiError(m, a, errorClass) ==
  LET count == m.apiErrorCounts[a] + 1
      table == BackoffMinutes(count)
      backoffMinutes == IF errorClass = "rate_limit"
                        THEN Max(table, RateLimitFloorMinutes) ELSE table
  IN [m EXCEPT !.apiErrorCounts[a] = count,
               !.apiCooldowns[a] = now + backoffMinutes * MsPerMinute,
               !.apiTrace[a] = Append(@, [kind |-> "error", class |-> errorClass,
                                          minutes |-> backoffMinutes])]

\* line 997: this.apiErrorCounts[agentId] = 0
ResetErrorCount(m, a) ==
  [m EXCEPT !.apiErrorCounts[a] = 0,
            !.apiTrace[a] = Append(@, [kind |-> "success", class |-> Null,
                                       minutes |-> 0])]

ScheduleNextPost(m, a, r) ==
  [m EXCEPT !.nextPostTimes[a] =
     now + GetNextPostInterval(AgentPostFrequency, HourOf(now), r)]

\* the set is far below the 1000 ids saveProcessedTweets keeps
SaveProcessedTweets(m) == [m EXCEPT !.processedFile = m.processedTweetIds]

LoadProcessedTweets(m, ok) ==
  IF ok THEN [m EXCEPT !.processedTweetIds = @ \cup m.processedFile]
  ELSE [m EXCEPT !.processedTweetIds = {}]

(***************************************************************************)
(* AgentManager: processAgentReaction and createAgentPost, as functions of *)
(* the manager's state m and the index i of the activity that runs them    *)
(***************************************************************************)
EndRun(m, i) ==
  [m EXCEPT !.runs[i] = [NewRun(m.runs[i].kind, m.runs[i].agent, "done")
                           EXCEPT !.gate = m.runs[i].gate]]

\* await this.twitterClient.getTweet(replyToId), on behalf of stage
StartContext(m, i, stage) ==
  [m EXCEPT !.runs[i].pc = "ctx", !.runs[i].stage = stage]

\* fetchConversationThread(replyToId, conversationHistory, agentId)
StartThread(m, i, stage) ==
  LET r == m.runs[i]
  IN [m EXCEPT !.runs[i].pc = "thread", !.runs[i].stage = stage,
               !.runs[i].th = ThreadCall([ThreadIdle EXCEPT !.agent = r.agent],
                                         r.item.replyToId, 0)]

\* processAgentReaction(agentId, tweet), up to its await of v2.me()
ProcessAgentReaction(m, i, tweet) ==
  Logged([m EXCEPT !.runs[i].item = tweet, !.runs[i].pc = "me"],
         i, "deliver", Null, Null)

\* the for loop of the poll tick over filteredMentions, then the save
PollNext(m, i) ==
  LET batch == m.runs[i].batch
  IN IF batch = <<>> THEN EndRun(SaveProcessedTweets(m), i)
     ELSE LET mention == [Head(batch) EXCEPT !.isDirectMention = TRUE]
              m1 == [m EXCEPT !.runs[i].batch = Tail(batch),
                              !.runs[i].item = mention,
                              !.runs[i].conversationHistory = <<>>,
                              !.runs[i].transcript = <<>>]
          IN IF mention.replyToId # Null THEN StartContext(m1, i, "poll")
             ELSE ProcessAgentReaction(m1, i, mention)

\* processAgentReaction returns (outcome says how) to whoever awaited it
Return(m, i, outcome) ==
  LET m1 == IF outcome \in {"self", "dup"} THEN Logged(m, i, "drop", Null, outcome)
            ELSE m
  IN IF m.runs[i].kind = "poll" THEN PollNext(m1, i) ELSE EndRun(m1, i)

\* processAgentReaction or createAgentPost throws: the poll tick's catch calls
\* _handleApiError; the event listener's rejection is caught by
\* dispatchEvent and that of the API route by the route (status 500); the
\* stream handler calls onMention and the cron tick calls
\* createAgentPost without awaiting them or attaching a catch, so that their
\* rejection is handled by nobody (ghost entry "unhandled")
Throw(m, i, errorClass) ==
  CASE m.runs[i].kind = "poll" ->
         EndRun(HandleApiError(m, m.runs[i].agent, errorClass), i)
    [] m.runs[i].kind = "event" -> EndRun(m, i)
    [] m.runs[i].kind \in {"api", "apiForced"} -> EndRun(m, i)
    [] OTHER -> EndRun(Logged(m, i, "unhandled", Null, Null), i)

MinTimeBetweenPosts == HoursToMs(AgentPostFrequency.minHoursBetweenPosts)

TooSoon(m, a) ==
  m.lastPostTime[a] # 0 /\ now - m.lastPostTime[a] < MinTimeBetweenPosts

\* createAgentPost(agentId, options), up to its await of the generator
CreateAgentPost(m, i, task, avoid, ignoreTimeConstraint) ==
  IF TooSoon(m, m.runs[i].agent) /\ ~ignoreTimeConstraint
  THEN Return(m, i, "too_soon")
  ELSE [m EXCEPT !.runs[i].pc = "gen", !.runs[i].task = task,
                 !.runs[i].avoid = avoid, !.runs[i].postNow = now]

\* tweetOptions.replyToTweetId
ReplyToTweetId(r) == IF r.task = "reply" /\ r.item.id # Null THEN r.item.id ELSE Null

\* tweetOptions.quoteTweetId: createAgentPost fills tweetOptions for replies
\* only and never reads options.quoteTweet
QuoteTweetId(r) == Null

\* the generator method createAgentPost awaits: generateContent with the
\* task and the item for a reply, generateTweet(agent) for everything else
GeneratorCall(r) ==
  IF r.task = "reply" /\ r.item # NoItem
  THEN [method |-> "generateContent", task |-> "reply", about |-> r.item.id]
  ELSE [method |-> "generateTweet", task |-> Null, about |-> Null]

\* the generator settles; on success postTweet is called
AfterGenerate(m, i, ok, errorClass) ==
  IF ~ok THEN Throw(m, i, errorClass)
  ELSE Logged([m EXCEPT !.runs[i].pc = "post"],
              i, "postTweet", ReplyToTweetId(m.runs[i]), m.runs[i].task)

\* postTweet settles (a failure is caught and logged); lastPostTime, the
\* next schedule, return
AfterPostTweet(m, i, ok, r) ==
  LET run == m.runs[i]
      m1 == IF ok THEN Logged(m, i, "publish", ReplyToTweetId(run), run.task) ELSE m
      m2 == [m1 EXCEPT !.lastPostTime[run.agent] = run.postNow]
  IN Return(ScheduleNextPost(m2, run.agent, r), i,
            IF ok THEN "posted" ELSE "post_failed")

AgentName(a) == IF a = "bot1" THEN "Bot1" ELSE "Bot2"

\* String(tweet.replyToId).includes(agentId): the ids of tweets are the
\* network's, and none of them contains the id of an agent
IdIncludes(id, agentId) == id \in {x \in AllTweetIds : x = agentId}

\* a self check that looks at the user name only (used to show that the
\* immunity rests on the comparison of the ids)
SelfMentionByUsername(agentId, agentUsername, tweet) ==
  /\ agentUsername # Null
  /\ tweet.authorUsername # Null
  /\ ToLowerCase(tweet.authorUsername) = agentUsername

IsSelfMention(agentId, agentUsername, tweet) ==
  \/ tweet.authorId = agentId
  \/ /\ agentUsername # Null
     /\ tweet.authorUsername # Null
     /\ ToLowerCase(tweet.authorUsername) = agentUsername

IsMention(agentId, tweet) ==
  \/ tweet.isDirectMention
  \/ ("@" \o ToLowerCase(AgentName(agentId))) \in tweet.content
  \/ ("@" \o ToLowerCase(agentId)) \in tweet.content
  \/ (tweet.replyToId # Null /\ IdIncludes(tweet.replyToId, agentId))

AskingAboutContext(tweet) ==
  /\ "what" \in tweet.content
  /\ \/ "tweet" \in tweet.content
     \/ "context" \in tweet.content
     \/ "talking about" \in tweet.content

\* lines 526-552: the reply to a mention
ReplyToMention(m, i, hasMeaningfulContext) ==
  CreateAgentPost(m, i, "reply",
                  ~hasMeaningfulContext /\ AskingAboutContext(m.runs[i].item), TRUE)

\* v2.me() settles: self check, dedup check and insert, mention test
AfterMe(m, i, ok) ==
  LET r == m.runs[i]
      tweet == r.item
      agentUsername == IF ok THEN ToLowerCase(TwitterUsername(r.agent)) ELSE Null
  IN IF IsSelfMention(r.agent, agentUsername, tweet) THEN Return(m, i, "self")
     ELSE IF tweet.id \in m.processedTweetIds THEN Return(m, i, "dup")
     ELSE LET m1 == Logged([m EXCEPT !.processedTweetIds = @ \cup {tweet.id}],
                           i, "insert", Null, Null)
          IN IF IsMention(r.agent, tweet)
             THEN IF tweet.replyToId # Null THEN StartContext(m1, i, "mention")
                  ELSE ReplyToMention(m1, i, FALSE)
             ELSE [m1 EXCEPT !.runs[i].pc = "react"]

\* the awaited getTweet(replyToId) of a context fetch settles
AfterContext(m, i, ok) ==
  LET r == m.runs[i]
  IN IF r.stage = "mention"
     THEN IF ok
          THEN IF ~r.item.hasHistory THEN StartThread(m, i, "mention")
               ELSE ReplyToMention(m, i, TRUE)
          ELSE ReplyToMention(m, i, FALSE)
     ELSE IF ok THEN StartThread(m, i, r.stage)
          ELSE ProcessAgentReaction(m, i, r.item)

\* tweet.createdAt.getTime(); the fake post is made with new Date()
ItemTimestamp(item) ==
  IF item.id \in TweetIds THEN NetworkTweet(item.id).timestamp ELSE now

\* the entry pushed for the tweet that is reacted to
CurrentEntry(item) ==
  [role |-> "user", id |-> item.id, timestamp |-> ItemTimestamp(item)]

\* a history left in the order of the fetches (used to show that the order
\* of the transcript rests on the sort)
LeaveAsFetched(h) == h

\* conversationHistory.sort((a, b) => a.timestamp - b.timestamp): every
\* entry has a timestamp, and the sort is stable
RECURSIVE SortChronologically(_)
SortChronologically(h) ==
  IF h = <<>> THEN <<>>
  ELSE LET rest == SortChronologically(Tail(h))
           before == SelectSeq(rest, LAMBDA e : e.timestamp < Head(h).timestamp)
           after == SelectSeq(rest, LAMBDA e : ~(e.timestamp < Head(h).timestamp))
       IN before \o <<Head(h)>> \o after

\* the conversation history the tweet carries to the generator: for a
\* mention (and in the stream and poll paths) the ancestors sorted, then the
\* tweet itself; for a passive reply the tweet, then the ancestors, sorted.
\* The stream path attaches nothing when no ancestor was fetched
Transcript(stage, item, history) ==
  CASE stage = "passive" -> SortChronologically(<<CurrentEntry(item)>> \o history)
    [] stage = "stream" /\ history = <<>> -> <<>>
    [] OTHER -> Append(SortChronologically(history), CurrentEntry(item))

\* fetchConversationThread has returned with history th.history
\* (conversationHistory keeps the ancestors' entries as they were fetched)
AfterThread(m, i, th) ==
  LET r == m.runs[i]
      has == IF r.stage = "stream" THEN Len(th.history) > 0 ELSE TRUE
      m1 == [m EXCEPT !.runs[i].th = ThreadIdle, !.runs[i].item.hasHistory = has,
                      !.runs[i].conversationHistory = th.history,
                      !.runs[i].transcript = Transcript(r.stage, r.item, th.history)]
  IN CASE r.stage = "mention" -> ReplyToMention(m1, i, TRUE)
       [] r.stage = "passive" -> CreateAgentPost(m1, i, "reply", FALSE, TRUE)
       [] OTHER -> ProcessAgentReaction(m1, i, m1.runs[i].item)

\* a gate that lets every suggestion through (used to show that the
\* probability decides)
GateAlwaysPasses(d, probability) == TRUE

\* Math.random() <= probability, in per-mille
GatePasses(d, probability) == d <= probability

\* a dampening that never strikes (used to show that the halved probability
\* decides)
NeverDampened(d, quoteTweetProbability) == FALSE

\* Math.random() > quoteTweetProbability * 0.5, in per-mille
QuoteDampened(d, quoteTweetProbability) == 2 * d > quoteTweetProbability

\* generateReaction settles with the action the model chose; d is the draw
\* of the probability gate of that action
AfterReaction(m0, i, ok, errorClass, action, d) ==
  LET r == m0.runs[i]
      act == IF action = "quote" /\ QuoteDampened(d, QuoteTweetProbability)
             THEN "ignore" ELSE action
      m == [m0 EXCEPT !.runs[i].gate =
              [suggested |-> action,
               draw |-> IF action = "ignore" THEN 0 ELSE d]]
  IN IF ~ok THEN Throw(m0, i, errorClass)
     ELSE CASE act = "reply" ->
                 IF GatePasses(d, ReplyProbability)
                 THEN IF r.item.replyToId # Null THEN StartThread(m, i, "passive")
                      ELSE CreateAgentPost(
                             [m EXCEPT !.runs[i].transcript = <<CurrentEntry(r.item)>>],
                             i, "reply", FALSE, TRUE)
                 ELSE Return(m, i, "ignored")
            [] act = "quote" -> CreateAgentPost(m, i, "quote_tweet", FALSE, TRUE)
            [] act = "like" ->
                 IF GatePasses(d, AgentLikeProbability(r.agent))
                 THEN [m EXCEPT !.runs[i].pc = "like"]
                 ELSE Return(m, i, "ignored")
            [] OTHER -> Return(m, i, "ignored")

\* updateAgentRelationship(agentId, tweet.authorId, interaction), called
\* without await: reading generateRelationshipUpdate of an undefined
\* provider throws before the first await, the catch rethrows and the
\* promise, which nobody holds, is rejected; with a provider the note would
\* reach memoryManager.updateRelationship
UpdateAgentRelationship(m, i) ==
  IF llmProvider = Null THEN Logged(m, i, "unhandled", Null, Null)
  ELSE Logged(m, i, "updateRelationship", Null, Null)

\* likeTweet settles
AfterLike(m, i, ok, errorClass) ==
  IF ok
  THEN Return(UpdateAgentRelationship(Logged(m, i, "like", Null, Null), i),
              i, "liked")
  ELSE Throw(m, i, errorClass)

(***************************************************************************)
(* AgentManager: the delivery paths                                        *)
(***************************************************************************)
otherVars == <<jitterVars, threadVars, eventVars>>

Awaiting(i, pc) == i \in 1 .. Len(runs) /\ runs[i].pc = pc

\* a new activity; its index is Len(runs) + 1
Started(kind, a, pc) ==
  [Manager EXCEPT !.budget.runs = @ - 1, !.runs = Append(@, NewRun(kind, a, pc))]

\* twitter-client.js 682-687: the stream handler's own filter
StreamSelfMention(a, tweet) ==
  \/ tweet.authorId = TwitterUserId(a)
  \/ /\ tweet.authorUsername # Null
     /\ ToLowerCase(tweet.authorUsername) = ToLowerCase(TwitterUsername(a))

\* the Data handler of startMentionStream, up to its first await or to the
\* callback onMention, which calls processAgentReaction
StreamDelivers ==
  /\ budget.runs > 0
  /\ \E a \in Agents :
       /\ pollers[a].mode = "stream"
       /\ \E k \in 1 .. Len(MentionInbox(a)) :
            LET tweet == NetworkTweet(MentionInbox(a)[k])
                item == Item(tweet, TRUE, TRUE)
                i == Len(runs) + 1
                m == [Started("stream", a, "start") EXCEPT !.runs[i].item = item]
            IN SetManager(
                 IF StreamSelfMention(a, tweet)
                 THEN EndRun(Logged(m, i, "drop", Null, "stream_self"), i)
                 ELSE IF item.replyToId # Null THEN StartContext(m, i, "stream")
                 ELSE ProcessAgentReaction(m, i, item))
  /\ UNCHANGED <<restVars, now, otherVars>>

\* processAgentEvent(agentId, event) for an interaction_prompt whose
\* initiator is the agent: await getUserTimeline(targetId)
InteractionPrompt ==
  /\ budget.runs > 0
  /\ \E a \in Agents, target \in Agents :
       LET i == Len(runs) + 1
       IN SetManager([Started("event", a, "timeline") EXCEPT !.runs[i].target = target])
  /\ UNCHANGED <<restVars, now, otherVars>>

\* getUserTimeline settles: a tweet of the timeline picked at random, or the
\* fake post when the timeline is empty or the fetch failed
TimelineReturns ==
  /\ \E i \in 1 .. Len(runs) :
       /\ Awaiting(i, "timeline")
       /\ \E res \in {"error", "empty"} \cup Timeline(runs[i].target) :
            SetManager(ProcessAgentReaction(Manager, i,
              IF res \in {"error", "empty"} THEN FakePost(runs[i].target)
              ELSE Item(NetworkTweet(res), FALSE, FALSE)))
  /\ UNCHANGED <<restVars, now, otherVars>>

\* _startPollingMentionsForAgent(agentId): loadProcessedTweets, the closure
\* variables, the interval
StartPolling ==
  /\ \E a \in Agents, ok \in BOOLEAN :
       /\ pollers[a].mode = "none"
       /\ SetManager([LoadProcessedTweets(Manager, ok) EXCEPT
                        !.pollers[a] = [PollerIdle EXCEPT !.mode = "poll"],
                        !.budget.pollDue = @ \cup {a},
                        !.log = @ \cup {LogEntry("load", 0, a, NoItem, Null,
                                                 IF ok THEN "ok" ELSE "failed",
                                                 FALSE, TRUE)}])
  /\ UNCHANGED <<restVars, now, otherVars>>

MinInterval == MsPerMinute

\* getAgentMentions(agentId, {sinceId}), up to where it is awaited: the
\* rate-limit protection answers [] without a request
CallGetAgentMentions(m, i) ==
  IF now - m.lastMentionRequestTime < MinInterval
  THEN [m EXCEPT !.runs[i].pc = "mentions", !.runs[i].protected = TRUE]
  ELSE Logged([m EXCEPT !.runs[i].pc = "mentions", !.lastMentionRequestTime = now],
              i, "getAgentMentions", Null, Null)

\* one firing of the interval of _startPollingMentionsForAgent
PollTick ==
  /\ \E a \in budget.pollDue :
       /\ pollers[a].mode = "poll"
       /\ IF InCooldown(Manager, a)
          THEN SetManager([Manager EXCEPT !.budget.pollDue = @ \ {a},
                 !.log = @ \cup {LogEntry("skip", 0, a, NoItem, Null, Null, TRUE, TRUE)}])
          ELSE /\ budget.runs > 0
               /\ LET i == Len(runs) + 1
                      m == [Started("poll", a, "start") EXCEPT !.budget.pollDue = @ \ {a}]
                  IN SetManager(IF pollers[a].agentUsername = Null
                                THEN [m EXCEPT !.runs[i].pc = "pollme"]
                                ELSE CallGetAgentMentions(m, i))
  /\ UNCHANGED <<restVars, now, otherVars>>

\* the tick's v2.me() settles
PollMeReturns ==
  /\ \E i \in 1 .. Len(runs) :
       /\ Awaiting(i, "pollme")
       /\ \E ok \in BOOLEAN, errorClass \in ErrorClasses :
            LET a == runs[i].agent
            IN SetManager(
                 IF ok
                 THEN CallGetAgentMentions(
                        [Manager EXCEPT !.pollers[a].agentUsername =
                                          ToLowerCase(TwitterUsername(a))], i)
                 ELSE EndRun(HandleApiError(Manager, a, errorClass), i))
  /\ UNCHANGED <<restVars, now, otherVars>>

IndexIn(q, id) == IF id = Null THEN 0 ELSE CHOOSE j \in 1 .. Len(q) : q[j] = id

\* what the mention timeline answers when the k oldest mentions exist:
\* those after sinceId, newest first
MentionsSince(a, sinceId, k) ==
  LET inbox == MentionInbox(a)
      from == IndexIn(inbox, sinceId)
  IN [n \in 1 .. (IF k > from THEN k - from ELSE 0) |->
        Item(NetworkTweet(inbox[k - n + 1]), TRUE, FALSE)]

\* the tick's filter (lines 1006-1022)
FilteredMentions(m, a, mentions) ==
  SelectSeq(mentions, LAMBDA t :
    /\ ~(/\ t.authorUsername # Null
         /\ m.pollers[a].agentUsername # Null
         /\ ToLowerCase(t.authorUsername) = m.pollers[a].agentUsername)
    /\ t.id \notin m.processedTweetIds)

\* getAgentMentions settles (it never throws: on an error it answers [])
MentionsReturn ==
  /\ \E i \in 1 .. Len(runs) :
       /\ Awaiting(i, "mentions")
       /\ \E k \in 0 .. Len(MentionInbox(runs[i].agent)) :
            LET a == runs[i].agent
                mentions == IF runs[i].protected THEN <<>>
                            ELSE MentionsSince(a, pollers[a].lastMentionId, k)
                m == ResetErrorCount(Manager, a)
            IN /\ runs[i].protected => k = 0
               /\ SetManager(
                    IF mentions = <<>> THEN EndRun(m, i)
                    ELSE PollNext([m EXCEPT
                           !.pollers[a].lastMentionId = mentions[1].id,
                           !.runs[i].batch = FilteredMentions(m, a, mentions)], i))
  /\ UNCHANGED <<restVars, now, otherVars>>

(***************************************************************************)
(* AgentManager: the awaited calls of the pipeline settle                  *)
(***************************************************************************)
\* the class of an error is looked at by _handleApiError only, that is when
\* the poll tick catches it: elsewhere one class stands for all
ErrorObserved(i, ok, errorClass) ==
  (ok \/ runs[i].kind # "poll") => errorClass = "other"

MeReturns ==
  /\ \E i \in 1 .. Len(runs), ok \in BOOLEAN :
       /\ Awaiting(i, "me")
       /\ SetManager(AfterMe(Manager, i, ok))
  /\ UNCHANGED <<restVars, now, otherVars>>

ContextReturns ==
  /\ \E i \in 1 .. Len(runs) :
       /\ Awaiting(i, "ctx")
       /\ \E ok \in FetchOutcomes(runs[i].item.replyToId) :
            SetManager(AfterContext(Manager, i, ok))
  /\ UNCHANGED <<restVars, now, otherVars>>

\* a getTweet of fetchConversationThread settles
ConversationFetchReturns ==
  /\ \E i \in 1 .. Len(runs) :
       /\ Awaiting(i, "thread")
       /\ \E ok \in FetchOutcomes(runs[i].th.cur) :
            LET th == ThreadResume(runs[i].th, ok)
            IN SetManager(IF th.pc = "ret" THEN AfterThread(Manager, i, th)
                          ELSE [Manager EXCEPT !.runs[i].th = th])
  /\ UNCHANGED <<restVars, now, otherVars>>

ReactionActions == {"reply", "quote", "like", "ignore"}

ReactionReturns ==
  /\ \E i \in 1 .. Len(runs), ok \in BOOLEAN, errorClass \in ErrorClasses,
        action \in ReactionActions, d \in Draws :
       /\ Awaiting(i, "react")
       /\ ErrorObserved(i, ok, errorClass)
       /\ SetManager(AfterReaction(Manager, i, ok, errorClass, action, d))
  /\ UNCHANGED <<restVars, now, otherVars>>

LikeReturns ==
  /\ \E i \in 1 .. Len(runs), ok \in BOOLEAN, errorClass \in ErrorClasses :
       /\ Awaiting(i, "like")
       /\ ErrorObserved(i, ok, errorClass)
       /\ SetManager(AfterLike(Manager, i, ok, errorClass))
  /\ UNCHANGED <<restVars, now, otherVars>>

GenerateReturns ==
  /\ \E i \in 1 .. Len(runs), ok \in BOOLEAN, errorClass \in ErrorClasses :
       /\ Awaiting(i, "gen")
       /\ ErrorObserved(i, ok, errorClass)
       /\ SetManager(AfterGenerate(Manager, i, ok, errorClass))
  /\ UNCHANGED <<restVars, now, otherVars>>

PostTweetReturns ==
  /\ \E i \in 1 .. Len(runs), ok \in BOOLEAN, r \in SchedDraws :
       /\ Awaiting(i, "post")
       /\ SetManager(AfterPostTweet(Manager, i, ok, r))
  /\ UNCHANGED <<restVars, now, otherVars>>

(***************************************************************************)
(* AgentManager: scheduleAgentPosts                                        *)
(***************************************************************************)
\* the tick that forgets line 278 (used to show that the pending schedule
\* rests on the rescheduling of the tick itself)
NoReschedule(m, a, r) == m

\* line 278: this.scheduleNextPost(agentId), right after createAgentPost
TickReschedule(m, a, r) == ScheduleNextPost(m, a, r)

\* the setTimeout of scheduleAgentPosts fires
FirstSchedule ==
  /\ \E a \in budget.first, r \in SchedDraws :
       SetManager(ScheduleNextPost([Manager EXCEPT !.budget.first = @ \ {a}], a, r))
  /\ UNCHANGED <<restVars, now, otherVars>>

PostIsDue(m, a) == m.nextPostTimes[a] # 0 /\ now >= m.nextPostTimes[a]

\* one firing of the cron schedule '* * * * *'
CronTick ==
  /\ \E a \in budget.cronDue, r \in SchedDraws :
       LET m == [Manager EXCEPT !.budget.cronDue = @ \ {a}]
       IN IF PostIsDue(m, a)
          THEN /\ budget.runs > 0
               /\ LET i == Len(runs) + 1
                      m1 == [m EXCEPT !.nextPostTimes[a] = 0, !.budget.runs = @ - 1,
                                      !.runs = Append(@, NewRun("cron", a, "start"))]
                      m2 == CreateAgentPost(Logged(m1, i, "cronPost", Null, Null),
                                            i, "tweet", FALSE, FALSE)
                  IN SetManager(TickReschedule(m2, a, r))
          ELSE IF m.nextPostTimes[a] = 0
               THEN SetManager(ScheduleNextPost(m, a, r))
               ELSE SetManager(m)
  /\ UNCHANGED <<restVars, now, otherVars>>

(***************************************************************************)
(* The clock                                                               *)
(***************************************************************************)
PollingAgents == {a \in Agents : pollers[a].mode = "poll"}

\* a minute passes: every cron schedule and every poll interval fires again
AdvanceClock ==
  /\ budget.minutes > 0
  /\ now' = now + MsPerMinute
  /\ budget' = [budget EXCEPT !.minutes = @ - 1, !.cronDue = budget.cronAgents,
                              !.pollDue = PollingAgents]
  /\ UNCHANGED <<restVars, otherVars, processedTweetIds, processedFile, apiErrorCounts,
                 apiCooldowns, nextPostTimes, lastPostTime, pollers,
                 lastMentionRequestTime, runs, log, apiTrace>>

\* the cooldown of an agent runs out while nothing else happens (every poll
\* tick up to then is skipped)
CooldownElapses ==
  /\ budget.minutes > 0
  /\ \A i \in 1 .. Len(runs) : runs[i].pc = "done"
  /\ \E a \in PollingAgents :
       /\ InCooldown(Manager, a)
       /\ now' = apiCooldowns[a]
  /\ budget' = [budget EXCEPT !.minutes = @ - 1, !.cronDue = budget.cronAgents,
                              !.pollDue = PollingAgents]
  /\ UNCHANGED <<restVars, otherVars, processedTweetIds, processedFile, apiErrorCounts,
                 apiCooldowns, nextPostTimes, lastPostTime, pollers,
                 lastMentionRequestTime, runs, log, apiTrace>>

(***************************************************************************)
(* MemoryManager (src/unnamed/part_006), the memory of one agent.  A       *)
(* memory item is its importance, a relationship value is in tenths.  No   *)
(* memory document or file of the agent is stored anywhere, so that a      *)
(* first access initializes an empty memory.                               *)
(***************************************************************************)
MemoryLimit == 3
MaxTweetHistory == 2
RecentInteractionsCap == 10

DefaultImportance == 5
DefaultEventImportance == 7
Importances == {2, 8}

NewRelationship ==
  [sentiment |-> 0, familiarity |-> 0, trust |-> 0, recentInteractions |-> 0]

\* new AgentMemory(); tweetHistory is no field of the class: it is the
\* length of the array once recordPost or addTweetToAgentMemory made one
NewAgentMemory ==
  [exists |-> TRUE, longTermMemories |-> <<>>, recentEvents |-> <<>>,
   tweetHistory |-> 0, relationship |-> NewRelationship]

NoMemory == [NewAgentMemory EXCEPT !.exists = FALSE]

\* ghost: the last call, the item it added and whether it threw
NoCall == [op |-> Null, importance |-> 0, threw |-> FALSE]

MemoryIdle == memory = [mem |-> NoMemory, last |-> NoCall]

(***************************************************************************)
(* AgentManager: this.processedTweetIds as the ordered Set it is, with the *)
(* ids numbered, next to data/processed_tweets.json                        *)
(***************************************************************************)
\* the ids that can be processed
MaxIds == 5
\* stands for the 1000 of processedTweets.slice(-1000)
ProcessedCap == 3

DedupIdle == dedup = [ids |-> <<>>, file |-> <<>>, last |-> Null]

(***************************************************************************)
(* AgentManager: setupEventListeners and processAgentEvent                 *)
(***************************************************************************)
MaxBroadcasts == 2

\* Object.keys(this.agents), in the order the agents were loaded
AgentOrder == <<"bot1", "bot2">>

\* currentMood of a new Agent, in tenths
NewMood == [valence |-> 0, arousal |-> 0, dominance |-> 5]

\* the shifts of 'sudden inspiration' and 'brief melancholy', in tenths
MoodShifts ==
  {[valence |-> 3, arousal |-> 4, dominance |-> 2],
   [valence |-> -3, arousal |-> -2, dominance |-> -1]}

\* Agent.updateMood
UpdateMood(mood, shift) ==
  [valence |-> Max(-10, Min(10, mood.valence + shift.valence)),
   arousal |-> Max(0, Min(10, mood.arousal + shift.arousal)),
   dominance |-> Max(0, Min(10, mood.dominance + shift.dominance))]

\* handled, failed: (ghosts) the agents whose processAgentEvent of the
\* current event went through its case, and those where it threw;
\* memories: the addMemory calls made for each agent; reschedules: the
\* posts made for each agent, each of which ends in scheduleNextPost
FanoutIdle ==
  fanout = [pc |-> "idle", k |-> 0, events |-> 0,
            event |-> [type |-> Null, targetAgentIds |-> {},
                       shift |-> [valence |-> 0, arousal |-> 0, dominance |-> 0]],
            handled |-> {}, failed |-> {},
            mood |-> [a \in Agents |-> NewMood],
            memories |-> [a \in Agents |-> 0],
            reschedules |-> [a \in Agents |-> 0]]

\* the negation of the guard at the head of processAgentEvent
Targeted(event, agentId) ==
  ~(event.targetAgentIds # {} /\ agentId \notin event.targetAgentIds)

\* a processAgentEvent that swallows what it catches (used to show what the
\* end of the loop rests on)
SwallowedError(f, agentId) == [f EXCEPT !.pc = "fulfilled", !.failed = @ \cup {agentId}]

\* the catch of processAgentEvent: log and rethrow
CaughtError(f, agentId) == [f EXCEPT !.pc = "thrown", !.failed = @ \cup {agentId}]

\* case 'mood_shift' (and what case 'news' does once it has its update):
\* addMemory, updateMood, and a createAgentPost when the arousal shift is
\* above 0.3 or the draw is low
MemoryAndMood(f, agentId, coin) ==
  LET f1 == [f EXCEPT !.memories[agentId] = @ + 1,
                      !.mood[agentId] = UpdateMood(@, f.event.shift)]
  IN IF f.event.shift.arousal > 3 \/ coin
     THEN [f1 EXCEPT !.pc = "createAgentPost"]
     ELSE [f1 EXCEPT !.pc = "fulfilled", !.handled = @ \cup {agentId}]

\* processAgentEvent(agentId, event), up to its first await or its return;
\* case 'news' starts with a call on this.llmProvider, which nothing sets
ProcessAgentEvent(f, agentId, coin) ==
  IF ~Targeted(f.event, agentId) THEN [f EXCEPT !.pc = "fulfilled"]
  ELSE IF f.event.type = "news" /\ llmProvider = Null THEN CaughtError(f, agentId)
  ELSE MemoryAndMood(f, agentId, coin)

\* the listener on 'all' is called with an event: the loop over the agents,
\* up to its first await
EventListenerCalled ==
  /\ fanout.pc \in {"idle", "listenerDone", "listenerRejected"}
  /\ fanout.events < MaxBroadcasts
  /\ \E type \in EventTypes, targets \in SUBSET Agents, shift \in MoodShifts,
        coin \in BOOLEAN :
       fanout' = ProcessAgentEvent(
                   [fanout EXCEPT
                      !.event = [type |-> type, targetAgentIds |-> targets,
                                 shift |-> shift],
                      !.k = 1, !.events = @ + 1, !.handled = {}, !.failed = {}],
                   AgentOrder[1], coin)
  /\ UNCHANGED <<now, otherVars, managerVars, memoryVars, dedupVars, loaderVars, botVars>>

\* the createAgentPost that processAgentEvent returned settles: null when
\* it was too soon, the post (lastPostTime, scheduleNextPost), or the
\* generator's error, rethrown
EventPostSettles ==
  /\ fanout.pc = "createAgentPost"
  /\ \E outcome \in {"too_soon", "posted", "threw"} :
       LET a == AgentOrder[fanout.k]
       IN fanout' =
            CASE outcome = "too_soon" ->
                   [fanout EXCEPT !.pc = "fulfilled", !.handled = @ \cup {a}]
              [] outcome = "posted" ->
                   [fanout EXCEPT !.pc = "fulfilled", !.handled = @ \cup {a},
                                  !.reschedules[a] = @ + 1]
              [] outcome = "threw" -> CaughtError(fanout, a)
  /\ UNCHANGED <<now, otherVars, managerVars, memoryVars, dedupVars, loaderVars, botVars>>

\* await this.processAgentEvent(agentId, event) resumes in the listener: a
\* rejection ends the loop and rejects the listener, otherwise the next
\* agent, or the end
ProcessAgentEventSettles ==
  /\ fanout.pc \in {"fulfilled", "thrown"}
  /\ \E coin \in BOOLEAN :
       fanout' =
         IF fanout.pc = "thrown" THEN [fanout EXCEPT !.pc = "listenerRejected"]
         ELSE IF fanout.k < Len(AgentOrder)
         THEN ProcessAgentEvent([fanout EXCEPT !.k = @ + 1],
                                AgentOrder[fanout.k + 1], coin)
         ELSE [fanout EXCEPT !.pc = "listenerDone"]
  /\ UNCHANGED <<now, otherVars, managerVars, memoryVars, dedupVars, loaderVars, botVars>>

(***************************************************************************)
(* The standalone bot: PumpCantFunBot (index.js) over TwitterMentionHandler*)
(***************************************************************************)
MaxMentions == 2
MaxPolls == 2
MaxTweets == 1
MaxRestarts == 1

Mentions == 1 .. MaxMentions

\* mentions.data.data: the mentions of one response, the newest first
RECURSIVE NewestFirst(_)
NewestFirst(S) ==
  IF S = {} THEN <<>>
  ELSE LET top == CHOOSE x \in S : \A y \in S : y <= x
       IN <<top>> \o NewestFirst(S \ {top})
Responses == {NewestFirst(S) : S \in SUBSET Mentions}

NoStats == [tweetsPosted |-> 0, mentionsProcessed |-> 0, errors |-> 0]

\* one getMentions with the callbacks that follow it: the initial check of
\* startPolling or one firing of its interval
NewPoll(initial) == [pc |-> "mentions", todo |-> <<>>, initial |-> initial]

\* the process after new PumpCantFunBot(): nothing runs before start()
NewBot(isDryRun, processedMentions) ==
  [isDryRun |-> isDryRun, phase |-> "new", stats |-> NoStats,
   processedMentions |-> processedMentions, lastMentionId |-> 0,
   polls |-> <<>>, tweets |-> <<>>]

\* what outlives the process: the id file, and (ghosts) how often each
\* mention came in a response (counted up to 2), was handed to the callback
\* and was replied to, how many tweets were posted, the restarts, whether a
\* load failed
BotIdle ==
  bot = [proc |-> NewBot(FALSE, {}), file |-> {},
         seen |-> [id \in Mentions |-> 0], handed |-> [id \in Mentions |-> 0],
         replies |-> [id \in Mentions |-> 0], posts |-> 0,
         restarts |-> 0, loadFailed |-> FALSE]

\* loadProcessedMentions(): the ids of the file, or an empty Set when the
\* file is missing or cannot be read
LoadProcessedMentions(file, ok) == IF ok THEN file ELSE {}

\* saveProcessedMentions(): the whole Set is written
SaveProcessedMentions(b) == [b EXCEPT !.file = b.proc.processedMentions]

\* a filter that lets every mention through (used to show what the single
\* hand-over rests on)
AlwaysNew(b, id) == TRUE

\* !this.processedMentions.has(mention.id)
IsNew(b, id) == id \notin b.proc.processedMentions

\* the loop of getMentions over the response: each new id is added and the
\* file saved at once; the new mentions are returned in the response's order
RECURSIVE ProcessMentions(_, _, _)
ProcessMentions(b, data, newMentions) ==
  IF data = <<>> THEN [b |-> b, newMentions |-> newMentions]
  ELSE LET id == Head(data)
           counted == [b EXCEPT !.seen[id] = Min(@ + 1, 2)]
       IN IF IsNew(b, id)
          THEN ProcessMentions(
                 SaveProcessedMentions(
                   [counted EXCEPT !.proc.processedMentions = @ \cup {id}]),
                 Tail(data), Append(newMentions, id))
          ELSE ProcessMentions(counted, Tail(data), newMentions)

\* postScheduledTweet(), up to the await of generateTweet
PostScheduledTweet(b) == [b EXCEPT !.proc.tweets = Append(@, "generate")]

\* a poll has no mention left: the interval callback ends; after the initial
\* check startPolling sets the interval and start() goes on to
\* startScheduledTweets, which posts at once
PollDone(b, i) ==
  LET done == [b EXCEPT !.proc.polls[i].pc = "done", !.proc.polls[i].todo = <<>>]
  IN IF b.proc.polls[i].initial
     THEN PostScheduledTweet([done EXCEPT !.proc.phase = "running"])
     ELSE done

\* for (const mention of mentions) await onMention(mention): on to the next
NextMention(b, i) ==
  IF Len(b.proc.polls[i].todo) > 1
  THEN [b EXCEPT !.proc.polls[i].todo = Tail(@), !.proc.polls[i].pc = "callback"]
  ELSE PollDone(b, i)

\* a bot that sends whatever the mode (used to show what the dry run rests
\* on)
SendsAlways(b) == TRUE

\* if (this.isDryRun) ... else send
Sends(b) == ~b.proc.isDryRun

\* start() is called on a new process: up to await this.twitter.initialize()
BotStart ==
  /\ bot.proc.phase = "new"
  /\ bot' = [bot EXCEPT !.proc.phase = "initialize"]
  /\ UNCHANGED <<now, otherVars, managerVars, memoryVars, dedupVars, loaderVars, fanoutVars>>

\* client.v2.me() settles: start() returns when it failed, otherwise
\* startPolling runs up to the await of its first getMentions
InitializeReturns ==
  /\ bot.proc.phase = "initialize"
  /\ \E ok \in BOOLEAN :
       bot' = IF ok THEN [bot EXCEPT !.proc.phase = "startPolling",
                                     !.proc.polls = <<NewPoll(TRUE)>>]
              ELSE [bot EXCEPT !.proc.phase = "failed"]
  /\ UNCHANGED <<now, otherVars, managerVars, memoryVars, dedupVars, loaderVars, fanoutVars>>

\* the polling interval fires, whatever the earlier polls are doing
PollingInterval ==
  /\ bot.proc.phase = "running"
  /\ Len(bot.proc.polls) < MaxPolls + 1
  /\ bot' = [bot EXCEPT !.proc.polls = Append(@, NewPoll(FALSE))]
  /\ UNCHANGED <<now, otherVars, managerVars, memoryVars, dedupVars, loaderVars, fanoutVars>>

\* userMentionTimeline settles in getMentions: an error or an empty response
\* gives [], otherwise the new mentions, of which the first becomes
\* lastMentionId
MentionTimelineReturns ==
  /\ \E i \in 1 .. Len(bot.proc.polls), ok \in BOOLEAN, res \in Responses :
       /\ bot.proc.polls[i].pc = "mentions"
       /\ bot' = IF ~ok \/ res = <<>> THEN PollDone(bot, i)
                 ELSE LET r == ProcessMentions(bot, res, <<>>)
                      IN IF r.newMentions = <<>> THEN PollDone(r.b, i)
                         ELSE [r.b EXCEPT
                                 !.proc.lastMentionId = r.newMentions[1],
                                 !.proc.polls[i].todo = r.newMentions,
                                 !.proc.polls[i].pc = "callback"]
  /\ UNCHANGED <<now, otherVars, managerVars, memoryVars, dedupVars, loaderVars, fanoutVars>>

\* onMention(mention) = handleMention(mention), up to the await of
\* generateReply; one time in ten the mention is skipped
HandleMention ==
  /\ \E i \in 1 .. Len(bot.proc.polls), skip \in BOOLEAN :
       /\ bot.proc.polls[i].pc = "callback"
       /\ LET id == Head(bot.proc.polls[i].todo)
              handed == [bot EXCEPT !.handed[id] = @ + 1]
          IN bot' = IF skip THEN NextMention(handed, i)
                    ELSE [handed EXCEPT !.proc.polls[i].pc = "generateReply"]
  /\ UNCHANGED <<now, otherVars, managerVars, memoryVars, dedupVars, loaderVars, fanoutVars>>

\* the completion of generateReply settles: the catch counts an error; in a
\* dry run the reply is only logged, otherwise replyToMention is called
GenerateReplyReturns ==
  /\ \E i \in 1 .. Len(bot.proc.polls), ok \in BOOLEAN :
       /\ bot.proc.polls[i].pc = "generateReply"
       /\ LET id == Head(bot.proc.polls[i].todo)
          IN bot' =
               IF ~ok THEN NextMention([bot EXCEPT !.proc.stats.errors = @ + 1], i)
               ELSE IF Sends(bot)
               THEN [bot EXCEPT !.replies[id] = @ + 1,
                                !.proc.polls[i].pc = "replyToMention"]
               ELSE NextMention([bot EXCEPT !.proc.stats.mentionsProcessed = @ + 1], i)
  /\ UNCHANGED <<now, otherVars, managerVars, memoryVars, dedupVars, loaderVars, fanoutVars>>

\* client.v2.reply settles in replyToMention, which rethrows a failure into
\* the catch of handleMention
ReplyToMentionReturns ==
  /\ \E i \in 1 .. Len(bot.proc.polls), ok \in BOOLEAN :
       /\ bot.proc.polls[i].pc = "replyToMention"
       /\ bot' = NextMention(
                   IF ok THEN [bot EXCEPT !.proc.stats.mentionsProcessed = @ + 1]
                   ELSE [bot EXCEPT !.proc.stats.errors = @ + 1], i)
  /\ UNCHANGED <<now, otherVars, managerVars, memoryVars, dedupVars, loaderVars, fanoutVars>>

\* the tweet interval fires
TweetInterval ==
  /\ bot.proc.phase = "running"
  /\ Len(bot.proc.tweets) < MaxTweets + 1
  /\ bot' = PostScheduledTweet(bot)
  /\ UNCHANGED <<now, otherVars, managerVars, memoryVars, dedupVars, loaderVars, fanoutVars>>

\* the completion of generateTweet settles in postScheduledTweet
GenerateTweetReturns ==
  /\ \E j \in 1 .. Len(bot.proc.tweets), ok \in BOOLEAN :
       /\ bot.proc.tweets[j] = "generate"
       /\ bot' =
            IF ~ok THEN [bot EXCEPT !.proc.tweets[j] = "done",
                                    !.proc.stats.errors = @ + 1]
            ELSE IF Sends(bot)
            THEN [bot EXCEPT !.posts = @ + 1, !.proc.tweets[j] = "postTweet"]
            ELSE [bot EXCEPT !.proc.tweets[j] = "done",
                             !.proc.stats.tweetsPosted = @ + 1]
  /\ UNCHANGED <<now, otherVars, managerVars, memoryVars, dedupVars, loaderVars, fanoutVars>>

\* client.v2.tweet settles in postTweet, which rethrows a failure
StandalonePostReturns ==
  /\ \E j \in 1 .. Len(bot.proc.tweets), ok \in BOOLEAN :
       /\ bot.proc.tweets[j] = "postTweet"
       /\ bot' = IF ok THEN [bot EXCEPT !.proc.tweets[j] = "done",
                                        !.proc.stats.tweetsPosted = @ + 1]
                 ELSE [bot EXCEPT !.proc.tweets[j] = "done",
                                  !.proc.stats.errors = @ + 1]
  /\ UNCHANGED <<now, otherVars, managerVars, memoryVars, dedupVars, loaderVars, fanoutVars>>

\* the process ends (stop() and process.exit, or a crash) and a new one is
\* made: the constructors run, the ids are loaded, nothing is in flight
BotRestart ==
  /\ bot.restarts < MaxRestarts
  /\ \E ok \in BOOLEAN :
       bot' = [bot EXCEPT
                 !.proc = NewBot(bot.proc.isDryRun,
                                 LoadProcessedMentions(bot.file, ok)),
                 !.restarts = @ + 1,
                 !.loadFailed = @ \/ ~ok]
  /\ UNCHANGED <<now, otherVars, managerVars, memoryVars, dedupVars, loaderVars, fanoutVars>>

(***************************************************************************)
(* AgentManager: loadAgents and loadAgent                                  *)
(***************************************************************************)
MaxFiles == 3

\* a file of config/agents: whether its name ends with .json, and the id of
\* the configuration it holds (Null: a configuration without an id)
ConfigFiles == [json : BOOLEAN, id : Agents \cup {Null}]
Directories == UNION {[1 .. n -> ConfigFiles] : n \in 0 .. MaxFiles}

LoaderIdle ==
  loader = [files |-> <<>>, pc |-> "idle", i |-> 0, settled |-> Null,
            agents |-> {}, scheduled |-> {}]
RestIdle == MemoryIdle /\ DedupIdle /\ LoaderIdle /\ BotIdle /\ FanoutIdle

\* a loadAgent that goes on after the missing id (used to show what the
\* abort of the loop rests on)
LoadAgentLenient(l, config) ==
  IF config.id = Null THEN [l EXCEPT !.settled = "fulfilled"]
  ELSE [l EXCEPT !.agents = @ \cup {config.id},
                 !.scheduled = @ \cup {config.id}, !.settled = "fulfilled"]

\* loadAgent(config): it has no await, so the promise it returns is settled
\* when the call returns: rejected for a config without an id, otherwise
\* the agent is stored and scheduleAgentPosts has run
LoadAgent(l, config) ==
  IF config.id = Null THEN [l EXCEPT !.settled = "rejected"]
  ELSE [l EXCEPT !.agents = @ \cup {config.id},
                 !.scheduled = @ \cup {config.id}, !.settled = "fulfilled"]

\* the for loop of loadAgents from file k up to its next await, or to the end
RECURSIVE LoadFrom(_, _)
LoadFrom(l, k) ==
  IF k > Len(l.files) THEN [l EXCEPT !.pc = "loaded", !.i = k]
  ELSE IF ~l.files[k].json THEN LoadFrom(l, k + 1)
  ELSE [LoadAgent(l, l.files[k]) EXCEPT !.pc = "await", !.i = k]

\* loadAgents(configDir), up to its first await
LoadAgents ==
  /\ loader.pc = "idle"
  /\ loader' = LoadFrom(loader, 1)
  /\ UNCHANGED <<now, otherVars, managerVars, memoryVars, dedupVars, botVars, fanoutVars>>

\* await this.loadAgent(agentConfig) resumes: the rejection is thrown into
\* the catch of loadAgents, which logs and rethrows
LoadAgentSettles ==
  /\ loader.pc = "await"
  /\ loader' = IF loader.settled = "rejected" THEN [loader EXCEPT !.pc = "failed"]
               ELSE LoadFrom(loader, loader.i + 1)
  /\ UNCHANGED <<now, otherVars, managerVars, memoryVars, dedupVars, botVars, fanoutVars>>

\* processAgentReaction, lines 462-468: an id the Set has not is added
DedupInsert ==
  /\ \E id \in 1 .. MaxIds :
       /\ id \notin SeqToSet(dedup.ids)
       /\ dedup' = [dedup EXCEPT !.ids = Append(@, id), !.last = "insert"]
  /\ UNCHANGED <<now, otherVars, managerVars, memoryVars, loaderVars, botVars, fanoutVars>>

\* Array.from(set).slice(-1000)
RecentTweets(ids) ==
  IF Len(ids) > ProcessedCap THEN SubSeq(ids, Len(ids) - ProcessedCap + 1, Len(ids))
  ELSE ids

\* saveProcessedTweets(): the file is written, the Set is left as it is
DedupSave ==
  /\ dedup' = [dedup EXCEPT !.file = RecentTweets(dedup.ids), !.last = "save"]
  /\ UNCHANGED <<now, otherVars, managerVars, memoryVars, loaderVars, botVars, fanoutVars>>

\* processedTweets.forEach(id => this.processedTweetIds.add(id))
AddAll(ids, file) == ids \o SelectSeq(file, LAMBDA id : id \notin SeqToSet(ids))

\* a load whose catch keeps the Set (used to show what the reset costs)
KeepOnError(ids) == ids

\* the catch of loadProcessedTweets: this.processedTweetIds = new Set()
ResetOnError(ids) == <<>>

\* loadProcessedTweets(): the ids of the file are added; when reading or
\* parsing the file throws, the Set is replaced by an empty one
DedupLoad ==
  /\ \E ok \in BOOLEAN :
       dedup' = IF ok THEN [dedup EXCEPT !.ids = AddAll(@, dedup.file), !.last = "load"]
                ELSE [dedup EXCEPT !.ids = ResetOnError(@), !.last = "loadFailed"]
  /\ UNCHANGED <<now, otherVars, managerVars, memoryVars, loaderVars, botVars, fanoutVars>>

\* getAgentMemory(agentId): the cached memory, else initializeAgentMemory
GetAgentMemory(mem) == IF mem.exists THEN mem ELSE NewAgentMemory

RECURSIVE InsertByImportance(_, _)
InsertByImportance(q, x) ==
  IF q = <<>> THEN <<x>>
  ELSE IF Head(q) >= x THEN <<Head(q)>> \o InsertByImportance(Tail(q), x)
       ELSE <<x>> \o q

\* items.sort((a, b) => b.importance - a.importance): stable, descending
RECURSIVE SortByImportance(_)
SortByImportance(q) ==
  IF q = <<>> THEN <<>>
  ELSE InsertByImportance(SortByImportance(SubSeq(q, 1, Len(q) - 1)), q[Len(q)])

\* a trim that keeps the oldest items (used to show that the trim of the
\* code goes by importance)
TrimOldestFirst(q, twiceCap) ==
  IF 2 * Len(q) > twiceCap THEN SubSeq(q, 1, twiceCap \div 2) ELSE q

\* if (items.length > cap) { sort; items = items.slice(0, cap) }, where cap
\* is twiceCap / 2 and slice truncates it
TrimByImportance(q, twiceCap) ==
  IF 2 * Len(q) > twiceCap
  THEN SubSeq(SortByImportance(q), 1, twiceCap \div 2)
  ELSE q

\* the initialMemory of an agent's configuration: so many recentEvents (of
\* the default importance 0.7), so many entries of tweetHistory, so many
\* recentInteractions in the relationship it describes
InitialMemories ==
  [recentEvents : 0 .. MemoryLimit \div 2 + 1, tweetHistory : {0, 1},
   recentInteractions : {0, RecentInteractionsCap + 1}]

\* initializeAgentMemory(agentId, initialMemory): memory.tweetHistory.push
\* on a new AgentMemory throws (there is no such array) before the memory
\* is stored
InitializeAgentMemory ==
  /\ \E im \in InitialMemories :
       memory' =
         IF im.tweetHistory > 0
         THEN [memory EXCEPT !.last = [NoCall EXCEPT !.op = "initializeAgentMemory",
                                                     !.threw = TRUE]]
         ELSE [mem |-> [NewAgentMemory EXCEPT
                          !.recentEvents =
                             [k \in 1 .. im.recentEvents |-> DefaultEventImportance],
                          !.relationship.recentInteractions = im.recentInteractions],
               last |-> [NoCall EXCEPT !.op = "initializeAgentMemory"]]
  /\ UNCHANGED <<now, otherVars, managerVars, dedupVars, loaderVars, botVars, fanoutVars>>

MemoryTypes == {"event", "general"}

\* addMemory(agentId, content, type, options)
AddMemory ==
  /\ \E type \in MemoryTypes, importance \in Importances \cup {DefaultImportance} :
       LET mem == GetAgentMemory(memory.mem)
       IN memory' =
            [mem |-> IF type = "event"
                     THEN [mem EXCEPT !.recentEvents =
                             TrimByImportance(Append(@, importance), MemoryLimit)]
                     ELSE [mem EXCEPT !.longTermMemories =
                             TrimByImportance(Append(@, importance), 2 * MemoryLimit)],
             last |-> [op |-> type, importance |-> importance, threw |-> FALSE]]
  /\ UNCHANGED <<now, otherVars, managerVars, dedupVars, loaderVars, botVars, fanoutVars>>

\* unshift, then slice(0, maxTweetHistory) when longer
PushTweet(mem) ==
  [mem EXCEPT !.tweetHistory = IF @ + 1 > MaxTweetHistory THEN MaxTweetHistory
                               ELSE @ + 1]

\* recordPost(agentId, tweetContent, tweetId, metadata)
RecordPost ==
  /\ memory' = [mem |-> PushTweet(GetAgentMemory(memory.mem)),
                last |-> [NoCall EXCEPT !.op = "recordPost"]]
  /\ UNCHANGED <<now, otherVars, managerVars, dedupVars, loaderVars, botVars, fanoutVars>>

\* addTweetToAgentMemory(agentId, tweet)
AddTweetToAgentMemory ==
  /\ memory' = [mem |-> PushTweet(GetAgentMemory(memory.mem)),
                last |-> [NoCall EXCEPT !.op = "addTweetToAgentMemory"]]
  /\ UNCHANGED <<now, otherVars, managerVars, dedupVars, loaderVars, botVars, fanoutVars>>

\* Math.max(-1, Math.min(1, value))
Clamp(value) == Max(-10, Min(10, value))

\* the changes of a call: one of the keys sentiment, familiarity and trust
\* (or none) with its value, and the length of changes.recentInteractions.
\* The keys of a call are applied one by one, so that a call with several
\* of them does what as many calls with one do.
ValueKeys == {"sentiment", "familiarity", "trust"}
RelationshipValues == {-15, -5, 5}
RelationshipChanges ==
  [key : ValueKeys \cup {Null}, value : RelationshipValues,
   recentInteractions : {0, 6}]

\* relationship[key] = Math.max(-1, Math.min(1, changes[key])), for the
\* three keys alike
ApplyValue(old, changes, key) ==
  IF key = changes.key THEN Clamp(changes.value) ELSE old

\* updateRelationship(agentId, targetAgentId, changes) on the memory mem
UpdatedRelationship(mem0, changes) ==
  LET mem == GetAgentMemory(mem0)
      rel == mem.relationship
      n == changes.recentInteractions + rel.recentInteractions
  IN [mem |-> [mem EXCEPT !.relationship =
                 [sentiment |-> ApplyValue(rel.sentiment, changes, "sentiment"),
                  familiarity |-> ApplyValue(rel.familiarity, changes, "familiarity"),
                  trust |-> ApplyValue(rel.trust, changes, "trust"),
                  recentInteractions |-> Min(n, RecentInteractionsCap)]],
      last |-> [NoCall EXCEPT !.op = "updateRelationship"]]

\* a call that brings interactions and changes no value
RecordInteractions ==
  /\ \E changes \in {c \in RelationshipChanges : c.key = Null /\ c.value = 5} :
       memory' = UpdatedRelationship(memory.mem, changes)
  /\ UNCHANGED <<now, otherVars, managerVars, dedupVars, loaderVars, botVars, fanoutVars>>

UpdateRelationship ==
  /\ \E changes \in RelationshipChanges :
       memory' = UpdatedRelationship(memory.mem, changes)
  /\ UNCHANGED <<now, otherVars, managerVars, dedupVars, loaderVars, botVars, fanoutVars>>

(***************************************************************************)
(* Specifications                                                          *)
(***************************************************************************)
DefaultPostFrequency ==
  [minHoursBetweenPosts |-> 1, maxHoursBetweenPosts |-> 2, peakPostingHours |-> {}]

JitterIdle == jIn = [pf |-> DefaultPostFrequency, hour |-> 3] /\ jOut = JitterNotCalled
ThreadInit == thread = ThreadIdle

IdleManager == ManagerInit /\ StreamsUp({}) /\ budget = NoBudget

InitJitter == now = StartTime /\ JitterInit /\ ThreadInit /\ EventInit /\ RestIdle /\ IdleManager
SpecJitter == InitJitter /\ [][CallGetNextPostInterval]_vars

InitThread == now = StartTime /\ JitterIdle /\ ThreadInit /\ EventInit /\ RestIdle /\ IdleManager
NextThread == ThreadStart \/ ThreadFetchReturns
SpecThread == InitThread /\ [][NextThread]_vars /\ WF_vars(ThreadFetchReturns)

InitEvents == now = StartTime /\ JitterIdle /\ ThreadInit /\ EventInit /\ RestIdle /\ IdleManager
NextEvents ==
  \/ CreateEvent
  \/ ScheduleEvent
  \/ ListenerSettles
  \/ DispatchReturns
  \/ EventClock
SpecEvents == InitEvents /\ [][NextEvents]_vars

\* the engine with listeners that terminate: every listener's promise
\* settles, the awaited dispatch then resumes the loop, and time goes on;
\* whether createEvent or scheduleEvent is called again is up to the callers
SpecEventsFair ==
  /\ InitEvents /\ [][NextEvents]_vars
  /\ WF_vars(ListenerSettles) /\ WF_vars(DispatchReturns) /\ WF_vars(EventClock)

(***************************************************************************)
(* The reaction pipeline and its delivery paths: bot1's mention stream is  *)
(* up, bot2 may fall back to polling                                       *)
(***************************************************************************)
MaxDeliveries == 2

InitReact ==
  /\ now = StartTime /\ JitterIdle /\ ThreadInit /\ EventInit /\ RestIdle
  /\ ManagerInit /\ StreamsUp({"bot1"})
  /\ budget = [NoBudget EXCEPT !.runs = MaxDeliveries]
NextReact ==
  \/ StreamDelivers
  \/ InteractionPrompt
  \/ TimelineReturns
  \/ StartPolling
  \/ PollTick
  \/ PollMeReturns
  \/ MentionsReturn
  \/ MeReturns
  \/ ContextReturns
  \/ ConversationFetchReturns
  \/ ReactionReturns
  \/ LikeReturns
  \/ GenerateReturns
  \/ PostTweetReturns
SpecReact == InitReact /\ [][NextReact]_vars

(***************************************************************************)
(* The mention poller of bot2 and the error backoff                        *)
(***************************************************************************)
MaxTicks == 6
MaxJumps == 5

\* _startPollingMentionsForAgent(a) has run and loaded the id file
PollingUp(a) ==
  pollers = [x \in Agents |-> IF x = a THEN [PollerIdle EXCEPT !.mode = "poll"]
                              ELSE PollerIdle]

InitPoll ==
  /\ now = StartTime /\ JitterIdle /\ ThreadInit /\ EventInit /\ RestIdle
  /\ ManagerInit /\ PollingUp("bot2")
  /\ budget = [NoBudget EXCEPT !.runs = MaxTicks, !.minutes = MaxJumps,
                               !.pollDue = {"bot2"}]
NextPoll ==
  \/ PollTick
  \/ PollMeReturns
  \/ MentionsReturn
  \/ MeReturns
  \/ GenerateReturns
  \/ PostTweetReturns
  \/ CooldownElapses
SpecPoll == InitPoll /\ [][NextPoll]_vars

(***************************************************************************)
(* The post schedule of bot2 next to its mention poller                    *)
(***************************************************************************)
MaxActivities == 2
MaxMinutes == 3

InitSched ==
  /\ now = StartTime /\ JitterIdle /\ ThreadInit /\ EventInit /\ RestIdle
  /\ ManagerInit /\ PollingUp("bot2")
  /\ budget = [runs |-> MaxActivities, minutes |-> MaxMinutes, first |-> {"bot2"},
               cronAgents |-> {"bot2"}, cronDue |-> {"bot2"}, pollDue |-> {"bot2"}]
NextSched ==
  \/ FirstSchedule
  \/ CronTick
  \/ PollTick
  \/ PollMeReturns
  \/ MentionsReturn
  \/ MeReturns
  \/ GenerateReturns
  \/ PostTweetReturns
  \/ AdvanceClock
SpecSched == InitSched /\ [][NextSched]_vars

(***************************************************************************)
(* The teardown of the mention watchers: bot1 listens to its stream, bot2  *)
(* polls                                                                   *)
(***************************************************************************)
\* stopStreamingMentions(): every stream is closed and mentionStreams
\* emptied, every interval cleared and mentionPollingIntervals emptied;
\* nothing else of the manager is touched
StopStreamingMentions ==
  /\ \E a \in Agents : pollers[a].mode \in {"stream", "poll"}
  /\ SetManager([Manager EXCEPT !.pollers =
       [a \in Agents |-> IF pollers[a].mode \in {"stream", "poll"}
                         THEN [pollers[a] EXCEPT !.mode = "stopped"]
                         ELSE pollers[a]]])
  /\ UNCHANGED <<restVars, now, otherVars>>

InitStop ==
  /\ now = StartTime /\ JitterIdle /\ ThreadInit /\ EventInit /\ RestIdle
  /\ ManagerInit
  /\ pollers = [a \in Agents |->
                  [PollerIdle EXCEPT !.mode = IF a = "bot1" THEN "stream" ELSE "poll"]]
  /\ budget = [NoBudget EXCEPT !.runs = MaxDeliveries, !.pollDue = {"bot2"}]
NextStop ==
  \/ StreamDelivers
  \/ PollTick
  \/ PollMeReturns
  \/ MentionsReturn
  \/ MeReturns
  \/ ContextReturns
  \/ ConversationFetchReturns
  \/ GenerateReturns
  \/ PostTweetReturns
  \/ StopStreamingMentions
SpecStop == InitStop /\ [][NextStop]_vars

(***************************************************************************)
(* The memory of one agent under any sequence of calls                     *)
(***************************************************************************)
InitMemory ==
  now = StartTime /\ JitterIdle /\ ThreadInit /\ EventInit /\ RestIdle /\ IdleManager
NextMemory ==
  \/ InitializeAgentMemory
  \/ AddMemory
  \/ RecordPost
  \/ AddTweetToAgentMemory
  \/ RecordInteractions
SpecMemory == InitMemory /\ [][NextMemory]_vars

\* the engine on its own, before anything listens to it, fed by the news
\* interval
InitHistory ==
  /\ now = StartTime /\ JitterIdle /\ ThreadInit /\ RestIdle /\ IdleManager
  /\ eventListeners = [t \in EventTypes \cup {"all"} |-> <<>>]
  /\ eventQueue = <<>> /\ scheduledEvents = <<>> /\ isProcessing = FALSE
  /\ eventHistory = <<>> /\ drain = DrainIdle /\ nextEventId = 0
  /\ created = <<>> /\ dispatched = <<>>
NextHistory == GenerateRandomNewsEvent \/ DispatchReturns
SpecHistory == InitHistory /\ [][NextHistory]_vars

\* one loadAgents over a directory of up to MaxFiles files
InitLoad ==
  /\ now = StartTime /\ JitterIdle /\ ThreadInit /\ EventInit /\ IdleManager
  /\ MemoryIdle /\ DedupIdle /\ BotIdle /\ FanoutIdle
  /\ \E files \in Directories : loader = [files |-> files, pc |-> "idle", i |-> 0,
         settled |-> Null, agents |-> {}, scheduled |-> {}]
NextLoad == LoadAgents \/ LoadAgentSettles
SpecLoad == InitLoad /\ [][NextLoad]_vars

\* the standalone bot, live or in a dry run, with one restart
InitBot ==
  /\ now = StartTime /\ JitterIdle /\ ThreadInit /\ EventInit /\ IdleManager
  /\ MemoryIdle /\ DedupIdle /\ LoaderIdle /\ FanoutIdle
  /\ \E isDryRun \in BOOLEAN :
       bot = [proc |-> NewBot(isDryRun, LoadProcessedMentions({}, TRUE)),
              file |-> {},
              seen |-> [id \in Mentions |-> 0], handed |-> [id \in Mentions |-> 0],
              replies |-> [id \in Mentions |-> 0], posts |-> 0,
              restarts |-> 0, loadFailed |-> FALSE]
NextBot ==
  \/ BotStart \/ InitializeReturns \/ PollingInterval \/ MentionTimelineReturns
  \/ HandleMention \/ GenerateReplyReturns \/ ReplyToMentionReturns
  \/ TweetInterval \/ GenerateTweetReturns \/ StandalonePostReturns \/ BotRestart
SpecBot == InitBot /\ [][NextBot]_vars

\* events handed to the manager's listener, one after the other
NextFanout == EventListenerCalled \/ EventPostSettles \/ ProcessAgentEventSettles
SpecFanout == InitMemory /\ [][NextFanout]_vars

\* the processed ids under insertions, saves and loads
NextDedup == DedupInsert \/ DedupSave \/ DedupLoad
SpecDedup == InitMemory /\ [][NextDedup]_vars

\* the relationship under any sequence of updates
NextRelationship == InitializeAgentMemory \/ UpdateRelationship
SpecRelationship == InitMemory /\ [][NextRelationship]_vars

(***************************************************************************)
(* Properties                                                              *)
(***************************************************************************)
PrioritiesOf(q) == [i \in 1 .. Len(q) |-> q[i].priority]
CreatedPriorities == [i \in 1 .. Len(created) |-> created[i].event.priority]
AllByCreateEvent == \A i \in 1 .. Len(created) : created[i].how = "createEvent"

\* the scenario: low, critical, normal made by createEvent on an idle engine,
\* and all three dispatched
LowCriticalNormalDrained ==
  /\ CreatedPriorities = <<"low", "critical", "normal">>
  /\ AllByCreateEvent
  /\ Len(dispatched) = 3

\* dispatchEvent is entered for one more event
DispatchStarts == Len(dispatched') = Len(dispatched) + 1

\* C5 (as stated): low, critical, normal enqueued with createEvent on an idle
\* engine are dispatched in the order critical, normal, low.
C5_DrainsCriticalNormalLow ==
  LowCriticalNormalDrained =>
    PrioritiesOf(dispatched) = <<"critical", "normal", "low">>

\* C5 (amended): whenever the drain takes an event, no event still waiting in
\* the queue has a higher priority; an event created on an idle engine is
\* taken at once, so low, critical, normal are dispatched in the order low,
\* critical, normal.
C5_PriorityAmongWaiting ==
  /\ [](LowCriticalNormalDrained =>
          PrioritiesOf(dispatched) = <<"low", "critical", "normal">>)
  /\ [][DispatchStarts =>
          \A i \in 1 .. Len(eventQueue') :
            PriorityValue(eventQueue'[i].priority)
              <= PriorityValue(dispatched'[Len(dispatched')].priority)]_vars

C5_Witness ==
  /\ LowCriticalNormalDrained
  /\ PrioritiesOf(dispatched) = <<"low", "critical", "normal">>
  /\ Len(eventHistory) = 3

\* C7: for every configuration with minHours <= maxHours and every outcome of
\* the draws, in peak and off-peak hours, the interval t returned by
\* getNextPostInterval satisfies minMs <= t <= maxMs.
C7_JitterBounds ==
  jOut.called =>
    /\ HoursToMs(jIn.pf.minHoursBetweenPosts) <= jOut.t
    /\ jOut.t <= HoursToMs(jIn.pf.maxHoursBetweenPosts)

\* C8: with maxDepth = 5 a resolution always terminates and fetches at most 5
\* ancestors (a transcript of at most 5 entries), on the chain of 10 and on
\* the cycle as on every other seed.
C8_DepthBound ==
  /\ [](thread.fetches <= MaxDepth /\ Len(thread.history) <= MaxDepth)
  /\ [](thread.pc = "await" => <>(thread.pc = "ret"))

C8_Witness ==
  /\ thread.pc = "ret"
  /\ thread.fetches = MaxDepth
  /\ Len(thread.history) = MaxDepth
  /\ thread.history[1].id = "cA"
  /\ thread.history[MaxDepth].id = "cA"

\* ghost views of the pipeline
SideEffects == {e \in log : e.op \in {"postTweet", "publish", "like"} /\ e.item # Null}
Reactions == {e \in log : e.op \in {"publish", "like"} /\ e.item # Null}

\* C1: an item delivered more than once to processAgentReaction produces
\* one reaction, never a second one, and its id is in the Dedup Store from
\* its first delivery on (here: whenever a reaction to it exists).
C1_AtMostOnce ==
  /\ \A e1 \in Reactions, e2 \in Reactions : e1.item = e2.item => e1 = e2
  /\ \A e \in Reactions : e.item \in processedTweetIds

\* C2: no publish or like for item X happens while X is absent from the
\* Dedup Store, and of two pipeline runs for X only one reaches publish.
C2_InsertBeforePublish ==
  /\ \A e \in SideEffects : ~e.absent
  /\ \A e1 \in SideEffects, e2 \in SideEffects :
       (e1.op = "postTweet" /\ e2.op = "postTweet" /\ e1.item = e2.item)
         => e1.ser = e2.ser

\* C3: an item whose authorId is the agent's id, or whose author's user name
\* is the agent's whatever the case, never gets a reply, quote or like from
\* that agent, and the pipeline drops it by returning, not by throwing.
C3_SelfMentionImmunity ==
  /\ \A e \in SideEffects : ~e.own
  /\ \A e \in log :
       (e.op = "deliver" /\ e.own) =>
         \/ runs[e.ser].pc = "me" /\ runs[e.ser].item.id = e.item
         \/ \E d \in log : /\ d.op = "drop" /\ d.why = "self"
                           /\ d.ser = e.ser /\ d.item = e.item

C3_Witness ==
  /\ \E d \in log : d.op = "drop" /\ d.why = "self" /\ d.own /\ runs[d.ser].pc = "done"
  /\ \E d \in log : d.op = "drop" /\ d.why = "stream_self" /\ d.own

\* the item is a direct mention of the agent or a reply to a tweet of the agent
AddressedTo(a, item) ==
  \/ item.isDirectMention
  \/ ("@" \o ToLowerCase(AgentName(a))) \in item.content
  \/ item.replyToId \in TweetIds /\ NetworkTweet(item.replyToId).authorId = a

\* C4: an item that is a direct mention or a reply to the agent (not the
\* agent's own, not a duplicate) takes the mention path: it never waits on
\* the reaction generator and its probability gates, and what is published
\* for it is a reply to it.
C4_MentionPathDeterministic ==
  /\ \A i \in 1 .. Len(runs) :
       runs[i].pc = "react" => ~AddressedTo(runs[i].agent, runs[i].item)
  /\ \A e \in SideEffects :
       (e.op = "postTweet" /\ \E i \in 1 .. Len(runs) :
           runs[i].item.id = e.item /\ AddressedTo(runs[i].agent, runs[i].item))
         => e.replyToId = e.item

\* the number of errors handled for the agent up to entry j of its trace
\* since its last success
ErrorStreak(tr, j) ==
  LET succ == {k \in 1 .. j : tr[k].kind = "success"}
      last == IF succ = {} THEN 0 ELSE CHOOSE k \in succ : \A x \in succ : x <= k
  IN j - last

\* the durations announced for the 1st, 2nd, ... consecutive error
Escalation(k) == <<1, 5, 15, 30, 60>>[IF k > 5 THEN 5 ELSE k]

\* C6 as stated: the k-th consecutive error handled for an agent, whatever
\* its class, sets a cooldown of 1, 5, 15, 30, 60 (60 from the 5th on)
\* minutes, and a success starts the count again.
C6_EveryErrorEscalates ==
  \A a \in Agents : \A j \in 1 .. Len(apiTrace[a]) :
    apiTrace[a][j].kind = "error" =>
      apiTrace[a][j].minutes = Escalation(ErrorStreak(apiTrace[a], j))

\* C6, amended: the k-th consecutive error of an agent sets a cooldown of
\* 1, 5, 15, 30, 60 (60 from the 5th on) minutes unless it is of the
\* rate-limit class, where the cooldown is that duration or 15 minutes,
\* whichever is longer; the counter is the number of errors since the last
\* success, so an error after a success yields 1 minute again.
C6_BackoffEscalation ==
  \A a \in Agents :
    /\ apiErrorCounts[a] = ErrorStreak(apiTrace[a], Len(apiTrace[a]))
    /\ \A j \in 1 .. Len(apiTrace[a]) :
         LET e == apiTrace[a][j]
             table == Escalation(ErrorStreak(apiTrace[a], j))
         IN e.kind = "error" =>
              e.minutes = IF e.class = "rate_limit" /\ table < 15 THEN 15 ELSE table

\* errors 1, 2, 3, a success, one more error
C6_Witness ==
  \E a \in Agents :
    /\ Len(apiTrace[a]) = 5
    /\ \A j \in {1, 2, 3, 5} : apiTrace[a][j].kind = "error" /\ apiTrace[a][j].class = "other"
    /\ apiTrace[a][3].minutes = 15
    /\ apiTrace[a][4].kind = "success"
    /\ apiTrace[a][5].minutes = 1

\* C9: while the agent is in its cooldown no fetch of mentions, no post and
\* no like is issued for it.
C9_SilentInCooldown ==
  \A e \in log : e.op \in {"getAgentMentions", "postTweet", "publish", "like"} => ~e.cool

\* C10: once an agent has a due time it keeps one across every step, every
\* tick of its cron schedule ends with a due time stored, and the tick
\* creates a post only when the stored due time has come.
C10_NeverWithoutSchedule ==
  /\ [][\A a \in Agents : nextPostTimes[a] # 0 => nextPostTimes'[a] # 0]_vars
  /\ [][\A a \in budget.cronDue \ budget'.cronDue : nextPostTimes'[a] # 0]_vars
  /\ [][\A e \in log' \ log :
          e.op = "cronPost" => nextPostTimes[e.agent] # 0 /\ now >= nextPostTimes[e.agent]]_vars

\* a tick has found the post due, invoked createAgentPost and rescheduled
C10_Witness ==
  \E i \in 1 .. Len(runs) :
    /\ runs[i].kind = "cron" /\ runs[i].pc = "gen"
    /\ nextPostTimes[runs[i].agent] > now

\* run i is a post creation of the scheduler that ends at this step without
\* a post: the generator failed, or postTweet failed
CronPostFails(i) ==
  /\ runs[i].kind = "cron" /\ runs[i].pc \in {"gen", "post"}
  /\ runs'[i].pc = "done"
  /\ ~\E e \in log' : e.op = "publish" /\ e.ser = i

C12_NoErrorEscapes == \A e \in log : e.op # "unhandled"

\* C13: under every interleaving of createEvent and of the clock with the
\* suspensions of the listeners, at most one drain loop is active and no
\* event is dispatched more than once.
C13_SingleDrain ==
  /\ drain.loops <= 1
  /\ isProcessing <=> drain.loops = 1
  /\ \A i \in 1 .. Len(dispatched), j \in 1 .. Len(dispatched) :
       dispatched[i].id = dispatched[j].id => i = j

\* two events were created while the listeners of an earlier one were
\* suspended: they wait in the queue of the running drain
C13_Witness ==
  /\ AllByCreateEvent
  /\ Len(created) = 3 /\ Len(eventQueue) = 2
  /\ drain.pc = "dispatch" /\ drain.pending # {} /\ drain.loops = 1

CreatedByCreateEvent(id) ==
  \E i \in 1 .. Len(created) :
    created[i].event.id = id /\ created[i].how = "createEvent"
Dispatched(id) == \E j \in 1 .. Len(dispatched) : dispatched[j].id = id

\* C14: whenever no drain is in progress the immediate queue is empty, and
\* with listeners that terminate every event made by createEvent, during a
\* running drain or not, is eventually dispatched.
C14_DrainsToCompletion ==
  /\ [](~isProcessing => eventQueue = <<>>)
  /\ \A id \in 1 .. MaxEvents : CreatedByCreateEvent(id) ~> Dispatched(id)

\* the third event overtook the second: both were created during the drain
\* of the first, and the drain went on until the queue was empty
C14_Witness ==
  /\ AllByCreateEvent
  /\ Len(dispatched) = 3 /\ dispatched[2].id = 3 /\ dispatched[3].id = 2
  /\ ~isProcessing /\ eventQueue = <<>> /\ Len(eventHistory) = 3

InQueue(id) == \E j \in 1 .. Len(eventQueue) : eventQueue[j].id = id
ScheduledDue(id) ==
  \E k \in 1 .. Len(scheduledEvents) :
    scheduledEvents[k].event.id = id /\ scheduledEvents[k].scheduledTime <= now

\* C15: an event of the scheduled list is neither in the immediate queue nor
\* dispatched, and once its due time has passed it is eventually dispatched,
\* whether or not another event is created afterwards.
C15_DueEventsAreDispatched ==
  /\ [](\A k \in 1 .. Len(scheduledEvents) :
          /\ ~InQueue(scheduledEvents[k].event.id)
          /\ ~Dispatched(scheduledEvents[k].event.id))
  /\ \A id \in 1 .. MaxEvents : ScheduledDue(id) ~> Dispatched(id)

\* C16: an event is handed to the listeners of its type and to the "all"
\* listeners, to no other and to all of them; a listener that fails takes
\* none of its siblings with it; and, failed listener or not, the event is
\* recorded in the history and the loop goes on with the next queued event.
C16_DispatchSurvivesListeners ==
  /\ [][Len(dispatched') > Len(dispatched) =>
          drain'.pending = SeqToSet(eventListeners[drain'.event.type])
                             \cup SeqToSet(eventListeners["all"])]_vars
  /\ [][(drain.pc = "dispatch" /\ drain'.pending # drain.pending
           /\ Len(dispatched') = Len(dispatched)) =>
          /\ drain'.pending \subseteq drain.pending
          /\ Cardinality(drain'.pending) = Cardinality(drain.pending) - 1]_vars
  /\ [][eventHistory' # eventHistory =>
          /\ drain.pending = {}
          /\ eventHistory'[Len(eventHistory')] = drain.event
          /\ eventQueue # <<>> =>
               drain'.pc = "dispatch" /\ drain'.event = Head(eventQueue)]_vars

\* a news event whose first listener to settle failed: the other one is
\* still awaited, and another event waits in the queue
C16_Witness ==
  /\ drain.pc = "dispatch" /\ drain.event.type = "news"
  /\ drain.failed /\ Cardinality(drain.pending) = 1
  /\ Len(eventQueue) > 0

\* C17: when an agent whose likeProbability is 1.0 has liked a passive item,
\* a relationship note about that item's author is in its memory.
C17_LikeIsRemembered ==
  \A e \in log :
    (e.op = "like" /\ AgentLikeProbability(e.agent) = 1000 /\ ~e.own) =>
      \E n \in log : /\ n.op = "updateRelationship"
                     /\ n.agent = e.agent /\ n.item = e.item

\* what activity i has published or liked, or is about to
ActedOn(i) ==
  \/ runs[i].pc # "done"
  \/ \E e \in log : e.ser = i /\ e.op \in {"postTweet", "publish", "like"}

Suggested(i, action) == runs[i].gate.suggested = action

\* C18: a reply (a like) suggested for a passive item and drawn above the
\* agent's replyProbability (likeProbability) ends the activity at once:
\* nothing is published or liked for it, whatever the other activities drew.
C18_GatedByOwnDraw ==
  \A i \in 1 .. Len(runs) :
    /\ (Suggested(i, "reply") /\ runs[i].gate.draw > ReplyProbability)
         => ~ActedOn(i)
    /\ (Suggested(i, "like")
          /\ runs[i].gate.draw > AgentLikeProbability(runs[i].agent))
         => ~ActedOn(i)

\* one activity declined a reply on a draw just above the probability and
\* another liked its item on a draw at or below its own
C18_Witness ==
  \E i, j \in 1 .. Len(runs) :
    /\ Suggested(i, "reply") /\ runs[i].gate.draw = ReplyProbability + 1
    /\ runs[i].pc = "done"
    /\ Suggested(j, "like")
    /\ runs[j].gate.draw <= AgentLikeProbability(runs[j].agent)
    /\ \E e \in log : e.ser = j /\ e.op = "like"

\* C19: a quote suggested for a passive item and drawn above half the
\* quoteTweetProbability is turned into ignore: nothing is published.
C19_QuoteDampening ==
  \A i \in 1 .. Len(runs) :
    (Suggested(i, "quote") /\ 2 * runs[i].gate.draw > QuoteTweetProbability)
      => ~ActedOn(i)

\* one quote was dropped on its draw, another, drawn within the halved
\* probability, was published
C19_Witness ==
  \E i, j \in 1 .. Len(runs) :
    /\ Suggested(i, "quote") /\ 2 * runs[i].gate.draw > QuoteTweetProbability
    /\ runs[i].pc = "done"
    /\ Suggested(j, "quote") /\ 2 * runs[j].gate.draw <= QuoteTweetProbability
    /\ \E e \in log : e.ser = j /\ e.op = "publish"

\* C20: an error of the rate-limit class sets a cooldown that ends at least
\* 15 minutes later, whatever the count of consecutive errors, and never
\* earlier than the cooldown that count alone stands for.
C20_RateLimitFloor ==
  [][\A a \in Agents :
       (/\ Len(apiTrace'[a]) = Len(apiTrace[a]) + 1
        /\ apiTrace'[a][Len(apiTrace'[a])].kind = "error"
        /\ apiTrace'[a][Len(apiTrace'[a])].class = "rate_limit") =>
         /\ apiCooldowns'[a] - now >= 15 * MsPerMinute
         /\ apiCooldowns'[a] - now
              >= Escalation(apiErrorCounts'[a]) * MsPerMinute]_vars

\* a first error of the rate-limit class lifted to 15 minutes, and a fourth
\* one left at the 30 minutes of the count
C20_Witness ==
  \E a \in Agents :
    /\ Len(apiTrace[a]) >= 4
    /\ \A j \in 1 .. 4 : apiTrace[a][j].kind = "error"
    /\ apiTrace[a][1].class = "rate_limit" /\ apiTrace[a][1].minutes = 15
    /\ apiTrace[a][4].class = "rate_limit" /\ apiTrace[a][4].minutes = 30

IsPrefix(p, q) == Len(p) <= Len(q) /\ SubSeq(q, 1, Len(p)) = p

\* C21: no outcome of a fetch made for the context of a tweet ends the
\* activity: while the conversation is resolved the entries gathered so far
\* stay, when the resolver returns they are the start of the history the
\* tweet carries on, and a reply to a mention or to a passive item goes to
\* the generator with them.
C21_PartialContextReplies ==
  [][\A i \in 1 .. Len(runs) :
       /\ (runs[i].pc \in {"ctx", "thread"} /\ runs'[i] # runs[i]) =>
            /\ runs'[i].pc # "done"
            /\ \A e \in log' \ log : e.op # "unhandled"
            /\ apiTrace' = apiTrace
       /\ runs[i].pc = "thread" =>
            /\ runs'[i].pc = "thread" =>
                 IsPrefix(runs[i].th.history, runs'[i].th.history)
            /\ runs'[i].pc # "thread" =>
                 /\ IsPrefix(runs[i].th.history, runs'[i].conversationHistory)
                 /\ runs[i].stage \in {"mention", "passive"} =>
                      runs'[i].pc = "gen" /\ runs'[i].task = "reply"]_vars

\* the reply to t4, a mention whose parent c9 was fetched and whose
\* grandparent c10 was not, has been generated and is being published
C21_Witness ==
  \E i \in 1 .. Len(runs) :
    /\ runs[i].pc = "post" /\ runs[i].task = "reply"
    /\ runs[i].item.id = "t4"
    /\ Len(runs[i].conversationHistory) = 1
    /\ runs[i].conversationHistory[1].id = "c9"

Watchers == {"poll", "stream"}

\* C22: once the mention watchers are torn down no poll tick and no stream
\* callback starts for the agent, and those that had started before publish
\* and like nothing any more.
C22_NothingAfterTeardown ==
  /\ [][\A i \in 1 .. Len(runs') :
          (i > Len(runs) /\ runs'[i].kind \in Watchers) =>
            pollers[runs'[i].agent].mode # "stopped"]_vars
  /\ [][\A e \in log' \ log :
          (e.op \in {"postTweet", "publish", "like"}
             /\ runs[e.ser].kind \in Watchers) =>
            pollers[e.agent].mode # "stopped"]_vars

Count(q, v) == Cardinality({j \in 1 .. Len(q) : q[j] = v})

\* post is pre without some of its items, and no item left out is more
\* important than an item kept
DropsLeastImportant(pre, post) ==
  \A v \in {pre[j] : j \in 1 .. Len(pre)} :
    /\ Count(post, v) <= Count(pre, v)
    /\ Count(post, v) < Count(pre, v) => \A j \in 1 .. Len(post) : post[j] >= v

WithinCaps(mem) ==
  /\ Len(mem.longTermMemories) <= MemoryLimit
  /\ 2 * Len(mem.recentEvents) <= MemoryLimit
  /\ mem.tweetHistory <= MaxTweetHistory
  /\ mem.relationship.recentInteractions <= 10

\* C23: whatever calls were made on the agent's memory, longTermMemories
\* holds at most memoryLimit items, recentEvents at most memoryLimit / 2,
\* tweetHistory at most maxTweetHistory and recentInteractions at most 10;
\* and an addMemory that overflows drops the least important items.
C23_BoundedCollections ==
  /\ [](memory.mem.exists => WithinCaps(memory.mem))
  /\ [][memory'.last.op \in MemoryTypes =>
          LET mem == GetAgentMemory(memory.mem)
              x == memory'.last.importance
          IN /\ DropsLeastImportant(Append(mem.recentEvents, x),
                                    memory'.mem.recentEvents)
                  \/ memory'.last.op # "event"
             /\ DropsLeastImportant(Append(mem.longTermMemories, x),
                                    memory'.mem.longTermMemories)
                  \/ memory'.last.op # "general"]_vars

\* C26: after any sequence of relationship updates the sentiment lies in
\* [-1, 1], the familiarity in [0, 1] and the trust in [0, 1].
C26_RelationshipRanges ==
  LET rel == memory.mem.relationship
  IN /\ rel.sentiment \in -10 .. 10
     /\ rel.familiarity \in 0 .. 10
     /\ rel.trust \in 0 .. 10

\* C24: the set of processed ids never holds more than the cap.
C24_DedupBounded == Len(dedup.ids) <= ProcessedCap

\* C25: an id of the set stays in it as long as fewer than the cap of newer
\* ids have been added after it, whatever is called, a load of the id file
\* that fails included; and after a load every id of the file is in the set.
C25_DedupAppendOnly ==
  /\ [][\A k \in 1 .. Len(dedup.ids) :
          Len(dedup.ids) - k < ProcessedCap =>
            dedup.ids[k] \in SeqToSet(dedup'.ids)]_vars
  /\ [][dedup'.last \in {"load", "loadFailed"} =>
          SeqToSet(dedup.file) \subseteq SeqToSet(dedup'.ids)]_vars

\* the number of events whose dispatch has returned
Processed == Len(dispatched) - (IF drain.pc = "dispatch" THEN 1 ELSE 0)

\* C27: the history holds the events processed last, at most 100 of them,
\* in the order they were processed: the 101st pushes the 1st out.
C27_HistoryWindow ==
  /\ Len(eventHistory) = (IF Processed > 100 THEN 100 ELSE Processed)
  /\ eventHistory =
       SubSeq(dispatched, Processed - Len(eventHistory) + 1, Processed)

\* 101 events were processed and the first is gone
C27_Witness ==
  /\ Processed = 101
  /\ Len(eventHistory) = 100
  /\ eventHistory[1].id = 2 /\ eventHistory[100].id = 101

\* the ids of the valid configurations of the directory
ValidConfigurations ==
  {loader.files[k].id : k \in {j \in 1 .. Len(loader.files) :
                                 loader.files[j].json /\ loader.files[j].id # Null}}

\* C28: when loadAgents has ended, whether it returned or threw, every valid
\* configuration of the directory is loaded and scheduled.
C28_OthersStillLoaded ==
  loader.pc \in {"loaded", "failed"} =>
    /\ ValidConfigurations \subseteq loader.agents
    /\ ValidConfigurations \subseteq loader.scheduled

\* what the code does keep: the configurations in front of the first one
\* without an id are loaded and scheduled, and nothing else is
C28_LoadedUpToFailure ==
  loader.pc \in {"loaded", "failed"} =>
    LET last == IF loader.pc = "failed" THEN loader.i ELSE Len(loader.files)
        front == {loader.files[k].id : k \in {j \in 1 .. last :
                    loader.files[j].json /\ loader.files[j].id # Null}}
    IN loader.agents = front /\ loader.scheduled = front

C29_OverlappingPolls ==
  /\ bot.restarts = 0
  /\ Len(bot.proc.polls) = 3
  /\ bot.proc.polls[2].pc = "generateReply" /\ bot.proc.polls[3].pc = "done"
  /\ LET id == Head(bot.proc.polls[2].todo)
     IN bot.seen[id] = 2 /\ bot.handed[id] = 1

\* C30: a step of a process in dry-run mode calls neither replyToMention
\* nor postTweet: the counts of both calls stay as they are.
C30_DryRunNeverSends ==
  [][bot.proc.isDryRun => bot'.replies = bot.replies /\ bot'.posts = bot.posts]_vars

\* a dry run that generated a tweet and a reply and counted both, with
\* nothing sent
C30_Witness ==
  /\ bot.proc.isDryRun
  /\ bot.proc.stats.tweetsPosted >= 1 /\ bot.proc.stats.mentionsProcessed >= 1
  /\ bot.posts = 0 /\ \A id \in Mentions : bot.replies[id] = 0

\* C31: at every dequeue of the drain loop, no event left in the queue has a
\* strictly higher priority than the event removed, and the queue is in
\* priority order at all times.
C31_DequeueHighestPriority ==
  [][/\ \A k \in 1 .. Len(eventQueue') - 1 :
          PriorityValue(eventQueue'[k].priority) >=
            PriorityValue(eventQueue'[k + 1].priority)
     /\ Len(dispatched') > Len(dispatched) =>
          \A k \in 1 .. Len(eventQueue') :
            PriorityValue(eventQueue'[k].priority) <=
              PriorityValue(dispatched'[Len(dispatched')].priority)]_vars

\* the drain took an event that was enqueued after one of lower priority
\* which still waits
C31_Witness ==
  /\ drain.pc = "dispatch"
  /\ \E k \in 1 .. Len(eventQueue) :
       /\ eventQueue[k].id < drain.event.id
       /\ PriorityValue(eventQueue[k].priority) < PriorityValue(drain.event.priority)

\* C32: a post made for the action quote is generated for the quote task,
\* about the item, and is handed to postTweet with the item's id as its
\* quote reference.
C32_QuoteIsPublishedAsQuote ==
  \A i \in 1 .. Len(runs) :
    (runs[i].pc = "post" /\ runs[i].task = "quote_tweet") =>
      /\ QuoteTweetId(runs[i]) = runs[i].item.id
      /\ GeneratorCall(runs[i]).method # "generateTweet"
      /\ GeneratorCall(runs[i]).about = runs[i].item.id

\* what the code does for a quote: a post with no reference at all, from the
\* generator of standalone tweets
C32_QuoteIsStandalone ==
  \A i \in 1 .. Len(runs) :
    (runs[i].pc = "post" /\ runs[i].task = "quote_tweet") =>
      /\ QuoteTweetId(runs[i]) = Null /\ ReplyToTweetId(runs[i]) = Null
      /\ GeneratorCall(runs[i]).method = "generateTweet"

FanoutOver == fanout.pc \in {"listenerDone", "listenerRejected"}

\* C33: when the listener is through with an event, every agent the event
\* is meant for has processed it, unless its own processing failed.
C33_OthersStillProcess ==
  FanoutOver =>
    \A a \in Agents :
      (Targeted(fanout.event, a) /\ a \notin fanout.failed) => a \in fanout.handled

\* what the code does: the first failure ends the loop, the agents behind
\* the one that failed are never called
C33_LoopEndsAtFailure ==
  fanout.pc = "listenerRejected" =>
    /\ AgentOrder[fanout.k] \in fanout.failed
    /\ \A j \in fanout.k + 1 .. Len(AgentOrder) :
         AgentOrder[j] \notin fanout.handled \cup fanout.failed

\* C34: an agent outside a non-empty targetAgentIds keeps its mood, its
\* memory and its post schedule through every step made for the event, and
\* an event with empty targetAgentIds has been processed for every agent
\* when the listener is through with it.
C34_EventTargeting ==
  [][/\ \A a \in Agents :
          ~Targeted(fanout'.event, a) =>
            /\ fanout'.mood[a] = fanout.mood[a]
            /\ fanout'.memories[a] = fanout.memories[a]
            /\ fanout'.reschedules[a] = fanout.reschedules[a]
     /\ (fanout'.pc \in {"listenerDone", "listenerRejected"}
           /\ fanout'.event.targetAgentIds = {}) =>
          fanout'.handled = Agents]_vars

\* the half that holds: agents outside the targets are left as they were
C34_OutsidersUntouched ==
  [][\A a \in Agents :
       ~Targeted(fanout'.event, a) =>
         /\ fanout'.mood[a] = fanout.mood[a]
         /\ fanout'.memories[a] = fanout.memories[a]
         /\ fanout'.reschedules[a] = fanout.reschedules[a]]_vars

Ascending(h) == \A k \in 1 .. Len(h) - 1 : h[k].timestamp <= h[k + 1].timestamp

\* C35: the conversation history a tweet carries when its reply is
\* generated is in ascending order of its timestamps, for mentions and for
\* passive replies.
C35_TranscriptAscending ==
  \A i \in 1 .. Len(runs) :
    (runs[i].pc = "gen" /\ runs[i].task = "reply") => Ascending(runs[i].transcript)

\* a reply is being generated for a mention with two ancestors, and one for
\* a passive tweet with one ancestor
C35_Witness ==
  /\ \E i \in 1 .. Len(runs) :
       /\ runs[i].pc = "gen" /\ runs[i].task = "reply" /\ runs[i].item.id = "t4"
       /\ Len(runs[i].transcript) = 3
       /\ runs[i].transcript[3].id = "t4" /\ runs[i].transcript[1].id = "c10"
  /\ \E j \in 1 .. Len(runs) :
       /\ runs[j].pc = "gen" /\ runs[j].task = "reply" /\ runs[j].item.id = "t3"
       /\ runs[j].stage = "passive"
       /\ Len(runs[j].transcript) = 2 /\ runs[j].transcript[1].id = "a1"

(***************************************************************************)
(* The mention poller of bot1, whose inbox holds two mentions of other     *)
(* users next to one of its own                                            *)
(***************************************************************************)
MaxBatchTicks == 2
MaxBatchMinutes == 2

InitPollBatch ==
  /\ now = StartTime /\ JitterIdle /\ ThreadInit /\ EventInit /\ RestIdle
  /\ ManagerInit /\ PollingUp("bot1")
  /\ budget = [NoBudget EXCEPT !.runs = MaxBatchTicks, !.minutes = MaxBatchMinutes,
                               !.pollDue = {"bot1"}]
NextPollBatch ==
  \/ PollTick
  \/ PollMeReturns
  \/ MentionsReturn
  \/ ContextReturns
  \/ ConversationFetchReturns
  \/ MeReturns
  \/ GenerateReturns
  \/ PostTweetReturns
  \/ AdvanceClock
  \/ CooldownElapses
SpecPollBatch == InitPollBatch /\ [][NextPollBatch]_vars

\* the mentions of a's inbox that a fetch has returned: since_id is
\* lastMentionId, so that none of them is returned again
ReturnedMentions(a) ==
  LET inbox == MentionInbox(a)
  IN {inbox[j] : j \in 1 .. IndexIn(inbox, pollers[a].lastMentionId)}

\* the tick's filter lets the mention through
PassesFilters(a, id) ==
  FilteredMentions(Manager, a, <<Item(NetworkTweet(id), TRUE, FALSE)>>) # <<>>

\* processAgentReaction(a, mention) has been called by a poll tick
HandedToPipeline(a, id) ==
  \E e \in log : e.op = "deliver" /\ e.agent = a /\ e.item = id

\* a running tick of a still has the mention before it
StillInBatch(a, id) ==
  \E i \in 1 .. Len(runs) :
    /\ runs[i].kind = "poll" /\ runs[i].agent = a /\ runs[i].pc # "done"
    /\ \/ runs[i].item.id = id
       \/ \E j \in 1 .. Len(runs[i].batch) : runs[i].batch[j].id = id

\* C36: every mention that a poll fetch has returned and that passes the
\* self-mention and dedup filters has been handed to processAgentReaction
\* or is still going to be, by the tick that fetched it (no later tick
\* fetches it again); that is, no mention is skipped for good, even when an
\* earlier mention of its batch failed
C36_NoMentionLeftBehind ==
  \A a \in PollingAgents : \A id \in ReturnedMentions(a) :
    PassesFilters(a, id) => HandedToPipeline(a, id) \/ StillInBatch(a, id)

\* what does hold: a mention is left behind only by a tick that ended in the
\* catch of the interval callback (an error was recorded for the agent)
C36_LeftBehindOnlyByFailure ==
  \A a \in PollingAgents : \A id \in ReturnedMentions(a) :
    (PassesFilters(a, id) /\ ~HandedToPipeline(a, id) /\ ~StillInBatch(a, id))
      => \E j \in 1 .. Len(apiTrace[a]) : apiTrace[a][j].kind = "error"

\* the postTweet of run i's reply settles in this step and createAgentPost
\* runs to its end
ReplyPostSettles(i) ==
  /\ runs[i].pc = "post" /\ runs[i].task = "reply"
  /\ runs'[i].pc # "post"

\* C37: publishing a reply (createAgentPost with task reply) leaves the
\* pending due time nextPostTimes[agentId] of the agent's next autonomous
\* post unchanged
C37_ReplyKeepsSchedule ==
  [][\A i \in 1 .. Len(runs) :
       (ReplyPostSettles(i) /\ nextPostTimes[runs[i].agent] # 0)
         => nextPostTimes'[runs[i].agent] = nextPostTimes[runs[i].agent]]_vars

\* what does hold: every reply schedules the next post anew, one jittered
\* interval after the reply
C37_ReplyReschedules ==
  [][\A i \in 1 .. Len(runs) :
       ReplyPostSettles(i)
         => \E r \in SchedDraws :
              nextPostTimes'[runs[i].agent] =
                now + GetNextPostInterval(AgentPostFrequency, HourOf(now), r)]_vars

(***************************************************************************)
(* startStreamingMentions with streaming disabled: both agents poll        *)
(* through the one TwitterClient, every minute                             *)
(***************************************************************************)
MaxPairMinutes == 1

\* the mentions of the two inboxes that are not the agent's own
ForeignMentions ==
  {id \in AllTweetIds :
     \E a \in Agents : \E j \in 1 .. Len(MentionInbox(a)) :
       MentionInbox(a)[j] = id /\ NetworkTweet(id).authorId # TwitterUserId(a)}

\* the manager was restarted after the mentions of both inboxes had been
\* handled: the id file holds them and loadProcessedTweets has read it
InitPollPair ==
  /\ now = StartTime /\ JitterIdle /\ ThreadInit /\ EventInit /\ RestIdle
  /\ processedTweetIds = ForeignMentions
  /\ processedFile = ForeignMentions
  /\ apiErrorCounts = [a \in Agents |-> 0]
  /\ apiCooldowns = [a \in Agents |-> 0]
  /\ nextPostTimes = [a \in Agents |-> 0]
  /\ lastPostTime = [a \in Agents |-> 0]
  /\ lastMentionRequestTime = 0
  /\ runs = <<>>
  /\ log = {}
  /\ apiTrace = [a \in Agents |-> <<>>]
  /\ pollers = [a \in Agents |-> [PollerIdle EXCEPT !.mode = "poll"]]
  /\ budget = [NoBudget EXCEPT !.runs = Cardinality(Agents) * (MaxPairMinutes + 1),
                               !.minutes = MaxPairMinutes, !.pollDue = Agents]
NextPollPair ==
  \/ PollTick
  \/ PollMeReturns
  \/ MentionsReturn
  \/ AdvanceClock
  \/ CooldownElapses
SpecPollPair == InitPollPair /\ [][NextPollPair]_vars

\* the ticks of a's interval that have called getAgentMentions
PollerTicks(a) ==
  {i \in 1 .. Len(runs) : /\ runs[i].kind = "poll" /\ runs[i].agent = a
                          /\ runs[i].pc \notin {"start", "pollme"}}

\* no tick of a has ended in _handleApiError: a was never in cooldown
NeverFailed(a) == \A j \in 1 .. Len(apiTrace[a]) : apiTrace[a][j].kind # "error"

\* a mention fetch of a went past the rate-limit protection
FetchIssued(a) == \E e \in log : e.op = "getAgentMentions" /\ e.agent = a

\* C38: every agent whose poller is running and not in cooldown eventually
\* has a mention fetch issued to the network; within the model's horizon:
\* an agent that was never in cooldown and whose interval has called
\* getAgentMentions in each of the MaxPairMinutes + 1 minutes has had a
\* fetch issued
C38_EveryPollerFetches ==
  \A a \in PollingAgents :
    (NeverFailed(a) /\ Cardinality(PollerTicks(a)) > MaxPairMinutes)
      => FetchIssued(a)

\* what does hold: the protection spaces the fetches of the client, not of
\* an agent; whoever asks, a fetch is issued only a minute or more after
\* the last one
C38_OneFetchAMinute ==
  [][lastMentionRequestTime' # lastMentionRequestTime
       => /\ now - lastMentionRequestTime >= MinInterval
          /\ lastMentionRequestTime' = now]_vars

(***************************************************************************)
(* ApiServer: POST /api/agents/:agentId/post, next to the post schedule of *)
(* bot2                                                                    *)
(***************************************************************************)
MaxPosts == 2
MaxPostMinutes == 2

\* the route handler up to its await of createAgentPost; force is
\* req.body.force === true.  When createAgentPost answers null the route
\* answers 429, when it throws 500: neither touches the manager
ApiPostRequest ==
  /\ budget.runs > 0
  /\ \E a \in Agents, force \in BOOLEAN :
       LET i == Len(runs) + 1
           m == Started(IF force THEN "apiForced" ELSE "api", a, "start")
       IN SetManager(CreateAgentPost(m, i, "tweet", FALSE, force))
  /\ UNCHANGED <<restVars, now, otherVars>>

InitPost ==
  /\ now = StartTime /\ JitterIdle /\ ThreadInit /\ EventInit /\ RestIdle
  /\ ManagerInit /\ pollers = [a \in Agents |-> PollerIdle]
  /\ budget = [runs |-> MaxPosts, minutes |-> MaxPostMinutes, first |-> {"bot2"},
               cronAgents |-> {"bot2"}, cronDue |-> {"bot2"}, pollDue |-> {}]
NextPost ==
  \/ ApiPostRequest
  \/ FirstSchedule
  \/ CronTick
  \/ GenerateReturns
  \/ PostTweetReturns
  \/ AdvanceClock
SpecPost == InitPost /\ [][NextPost]_vars

\* run i is a createAgentPost without ignoreTimeConstraint: the cron tick's
\* or an API request's without force
NonForced(i) == runs[i].kind \in {"cron", "api"}

\* a non-forced createAgentPost is called in this step, as run i, while the
\* agent's last post is less than minHoursBetweenPosts old
SkippedCall(i) ==
  /\ i > Len(runs) /\ i <= Len(runs')
  /\ runs'[i].kind \in {"cron", "api"}
  /\ TooSoon(Manager, runs'[i].agent)

\* the call returned null at once: nothing generated, nothing published,
\* lastPostTime and the tweet history as before
ReturnsNull(i) ==
  /\ runs'[i].pc = "done"
  /\ \A e \in log' : e.ser = i => e.op = "cronPost"
  /\ lastPostTime' = lastPostTime
  /\ memory' = memory

\* the published posts of non-forced calls
NonForcedPosts ==
  {e \in log : e.op = "publish" /\ e.ser \in 1 .. Len(runs) /\ NonForced(e.ser)}

\* C39: createAgentPost without ignoreTimeConstraint generates nothing,
\* publishes nothing and returns null whenever lastPostTime is set and less
\* than minHoursBetweenPosts ago, leaving lastPostTime and the tweet history
\* unchanged; hence two non-forced posts of one agent are never published
\* less than minHoursBetweenPosts apart
C39_MinimumSpacing ==
  /\ [][\A i \in 1 .. Len(runs') : SkippedCall(i) => ReturnsNull(i)]_vars
  /\ [](\A e1 \in NonForcedPosts, e2 \in NonForcedPosts :
          (e1.agent = e2.agent /\ e1.ser # e2.ser /\ e1.at <= e2.at)
            => e2.at - e1.at >= MinTimeBetweenPosts)

\* what does hold: the first half, the skipped call that does nothing
C39_SkippedCallDoesNothing ==
  [][\A i \in 1 .. Len(runs') : SkippedCall(i) => ReturnsNull(i)]_vars

\* and: only calls that overlap, or whose publication came long after their
\* start, publish too close; a call that starts after the last post of the
\* agent was recorded keeps the distance to that post's start
C39_SpacedFromRecordedPost ==
  [][\A i \in 1 .. Len(runs') :
       (/\ i > Len(runs) /\ runs'[i].kind \in {"cron", "api"}
        /\ runs'[i].pc # "done" /\ lastPostTime[runs'[i].agent] # 0)
         => now - lastPostTime[runs'[i].agent] >= MinTimeBetweenPosts]_vars

\* when d was delivered, the pipeline of another agent had inserted the item
InsertedByAnother(d) == d.other

\* the run that got delivery d went past the dedup check or reacted
PassedDedup(d) ==
  \E e \in log : /\ e.ser = d.ser /\ e.agent = d.agent /\ e.item = d.item
                 /\ e.op \in {"insert", "postTweet", "publish", "like"}

\* C40: the dedup set is shared by all agents: once the pipeline of one
\* agent has inserted an item, every later delivery of that item to the
\* pipeline of another agent is dropped without a reaction
C40_SharedDedup ==
  \A d \in log : (d.op = "deliver" /\ InsertedByAnother(d)) => ~PassedDedup(d)

\* what does hold: the same, as long as no loadProcessedTweets has failed
C40_SharedUnlessReset ==
  (\A e \in log : e.op = "load" => e.why = "ok") => C40_SharedDedup

\* t1, which mentions both agents, was inserted by the pipeline of one, then
\* delivered to the pipeline of the other and dropped there as a duplicate
C40_Dropped ==
  \E d \in log :
    /\ d.op = "deliver" /\ d.item = "t1" /\ InsertedByAnother(d)
    /\ \E e \in log : e.op = "drop" /\ e.ser = d.ser /\ e.item = d.item /\ e.why = "dup"

====
